---- MODULE Spec2Model ----
(***************************************************************************)
(* The split-signing flow of tknz-site: the create-token-meteora and       *)
(* create-pool handlers build transactions around freshly generated        *)
(* keypairs, the Keypair Store (Upstash Redis) keeps the secrets under     *)
(* signer:{wallet}:{subject}:{role}, and sign-token-txs / sign-pool-tx     *)
(* add the server-held signatures to what the client sends back.           *)
(*                                                                         *)
(* Public keys, addresses and request fields are strings; "" is the absent *)
(* (falsy) field.  A secret key is the byte string of a keypair; a stored  *)
(* value is a text in one of two encodings.  A signature is the pair       *)
(* (signer, bytes signed): Ed25519 is deterministic.                       *)
(***************************************************************************)
EXTENDS Integers, Sequences, FiniteSets, TLC

VARIABLES
    redis,      \* Keypair Store: signer key <<wallet, subject, role>> -> stored text
    dbcPool,    \* dbcPool:{pool} hashes written by create-token-meteora
    counter,    \* counters/dbcConfigIndex document: [exists, nextIndex]
    nextKey,    \* how many keypairs Keypair.generate() has produced for create-token
    reqs,       \* create-token-meteora requests in flight or finished
    resp,       \* the response a single-step handler is returning, if any
    treasurySet, \* whether TREASURY_SECRET_KEY is set in the deployment
    market,     \* marketplace: leaderboard:v2, the token:v2 hashes, the response
    stats,      \* platform-stats: the leaderboards, the upstream, the response
    script,     \* create-pool-configs: the run in progress, the chain, the store
    deposit     \* the deposit computation of create-token-meteora

(* The endpoints and the script that share no state with the signing flow. *)
apart == <<market, stats, script, deposit>>

vars == <<redis, dbcPool, counter, nextKey, reqs, resp, treasurySet, apart>>

(***************************************************************************)
(* Bounds of the model.                                                    *)
(***************************************************************************)
MaxRequests == 1

\* create-token-meteora requests in flight together in SpecCreate
MaxConcurrent == 2
\* members of leaderboard:v2 the marketplace reads
MaxTokens == 2

\* recent pools the gems request of platform-stats returns
MaxPools == 2

\* runs of the create-pool-configs script
MaxRuns == 2

\* how far around 0 and around the default the deposit amounts range
MaxSpread == 15

Wallets == {"w1", "w2"}
BadAddress == "not-a-pubkey"
Missing == ""
TreasuryPubkey == "treasury"
LegacyOwner == "w2"
LegacyConfig == "oldcfg"
LegacyMint == "oldmint"

(***************************************************************************)
(* Keys, secrets and their textual encodings.                              *)
(***************************************************************************)
\* a generator that returns the same keypair every time
GeneratedKeyReused(n) == "g1"

\* Keypair.generate(): the n-th key generated by create-token-meteora
GeneratedKey(n) == "g" \o ToString(n)

\* Keypair.generate() in create-pool: the base mint of the request at hand
BaseMintKey == "basemint"

\* keypair.secretKey: the 64 bytes of the keypair whose public key is pub
SecretKey(pub) == [valid |-> TRUE, pub |-> pub]

\* any byte string that is not a 64-byte secret key
BadBytes == [valid |-> FALSE, pub |-> ""]

\* a writer that stores the JSON-array form instead
ToBase64AsJsonArray(bytes) == [enc |-> "json", bytes |-> bytes]

\* Buffer.from(secretKey).toString('base64')
ToBase64(bytes) == [enc |-> "base64", bytes |-> bytes]

\* a stored text that redis.get returns as the JSON text of the key's byte
\* array: the form sign-token-txs parses
ToJsonArray(bytes) == [enc |-> "json", bytes |-> bytes]

\* redis.get on a key with no record
Null == [enc |-> "null", bytes |-> BadBytes]

\* Uint8Array.from(JSON.parse(text)): a base64 text is no JSON document
JsonParse(text) ==
    IF text.enc = "json" THEN [ok |-> TRUE, bytes |-> text.bytes]
    ELSE [ok |-> FALSE, bytes |-> BadBytes]

\* Uint8Array.from(Buffer.from(text, 'base64')): never throws; a text that is
\* not base64 decodes to bytes of another length
FromBase64(text) ==
    IF text.enc = "base64" THEN [ok |-> TRUE, bytes |-> text.bytes]
    ELSE [ok |-> TRUE, bytes |-> BadBytes]

\* Keypair.fromSecretKey(bytes): throws 'bad secret key size' on other bytes
KeypairFromSecretKey(bytes) ==
    [ok |-> bytes.valid, publicKey |-> bytes.pub, secretKey |-> bytes]

\* a store key that leaves the wallet out
SignerKeyAnyWallet(walletAddress, subject, role) == <<"", subject, role>>

\* a store key that leaves the subject out
SignerKeyPerWallet(walletAddress, subject, role) == <<walletAddress, "", role>>

\* `signer:${walletAddress}:${subject}:${role}`
SignerKey(walletAddress, subject, role) == <<walletAddress, subject, role>>

\* redis.get(key)
RedisGet(store, key) == IF key \in DOMAIN store THEN store[key] ELSE Null

\* redis.set(key, text)
RedisSet(store, key, text) ==
    [k \in DOMAIN store \cup {key} |-> IF k = key THEN text ELSE store[k]]

(***************************************************************************)
(* Versioned transactions: a message (kind, identity, the required signer  *)
(* keys in header order) and a parallel array of signature slots.          *)
(***************************************************************************)
NoMessage == [kind |-> "", id |-> "", signers |-> <<>>]

\* an all-zero signature slot
EmptySig == [by |-> "", over |-> NoMessage]

\* 64 bytes that are no signature of a declared signer
JunkSig == [by |-> "junk", over |-> NoMessage]

Message(kind, id, signers) == [kind |-> kind, id |-> id, signers |-> signers]

\* new VersionedTransaction(message): one empty slot per required signature
NewTransaction(message) ==
    [msg |-> message, sigs |-> [i \in 1..Len(message.signers) |-> EmptySig]]

\* a signer that signs the whole serialized transaction, slots included
MessageBytesWithSlots(tx) == tx

\* tx.message.serialize(): the bytes that are signed
MessageBytes(tx) == tx.msg

\* nacl.sign.detached(bytes, secretKey)
SignDetached(bytes, secretKey) == [by |-> secretKey.pub, over |-> bytes]

\* an addSignature that pushes the signature onto the slot array
AddSignatureAppended(tx, publicKey, signature) ==
    [ok |-> TRUE, tx |-> [tx EXCEPT !.sigs = Append(@, signature)]]

\* signerPubkeys.findIndex(pubkey => pubkey.equals(publicKey)); 0 when absent
SignerIndex(message, publicKey) ==
    IF \E i \in 1..Len(message.signers) : message.signers[i] = publicKey
    THEN CHOOSE i \in 1..Len(message.signers) :
            /\ message.signers[i] = publicKey
            /\ \A j \in 1..(i - 1) : message.signers[j] # publicKey
    ELSE 0

\* an addSignature that fills the first slot still empty
AddSignatureFirstEmpty(tx, publicKey, signature) ==
    LET empty == {i \in 1..Len(tx.sigs) : tx.sigs[i] = EmptySig}
    IN  IF empty = {} THEN [ok |-> FALSE, tx |-> tx]
        ELSE LET i == CHOOSE j \in empty : \A k \in empty : j <= k
             IN  [ok |-> TRUE, tx |-> [tx EXCEPT !.sigs[i] = signature]]

\* tx.addSignature(publicKey, signature): asserts the key is a required signer
AddSignature(tx, publicKey, signature) ==
    LET i == SignerIndex(tx.msg, publicKey)
    IN  IF i = 0 THEN [ok |-> FALSE, tx |-> tx]
        ELSE [ok |-> TRUE, tx |-> [tx EXCEPT !.sigs[i] = signature]]

\* Buffer.from(tx.serialize()).toString('base64'): signature count, the
\* signatures, the message
Serialize(tx) ==
    [form |-> "tx", nsig |-> Len(tx.sigs), sigs |-> tx.sigs, msg |-> tx.msg]

\* a request field that is absent
NoWire == [form |-> "", nsig |-> 0, sigs |-> <<>>, msg |-> NoMessage]

\* a non-empty string that is no serialized transaction
GarbageWire == [form |-> "garbage", nsig |-> 0, sigs |-> <<>>, msg |-> NoMessage]

\* VersionedTransaction.deserialize(Buffer.from(text, 'base64')): throws on
\* bytes that are no transaction and when the signature count differs from
\* the header's numRequiredSignatures
Deserialize(wire) ==
    IF /\ wire.form = "tx"
       /\ wire.nsig = Len(wire.sigs)
       /\ wire.nsig = Len(wire.msg.signers)
    THEN [ok |-> TRUE, tx |-> [msg |-> wire.msg, sigs |-> wire.sigs]]
    ELSE [ok |-> FALSE, tx |-> NewTransaction(NoMessage)]

(***************************************************************************)
(* Responses of the single-step handlers.                                  *)
(***************************************************************************)
NoRequest ==
    [walletAddress |-> "", poolConfigKey |-> "", mint |-> "", configKey |-> "",
     token |-> "", invalid |-> "", buyAmount |-> 0,
     signedConfigTx |-> NoWire, signedPoolTx |-> NoWire]

Response(handler, req, status, error, cfgOut, poolOut, signed) ==
    [handler |-> handler, req |-> req, status |-> status, threw |-> FALSE,
     error |-> error, signedConfigTx |-> cfgOut, signedPoolTx |-> poolOut,
     signatures |-> signed, upstream |-> {}, writes |-> {}, baseMint |-> "",
     transaction |-> NoWire]

\* an exception that leaves the handler uncaught: no status, no envelope
Thrown(handler, req, signed) ==
    [Response(handler, req, 0, "", NoWire, NoWire, signed) EXCEPT !.threw = TRUE]

NoResponse == Response("", NoRequest, 0, "", NoWire, NoWire, 0)

(***************************************************************************)
(* sign-token-txs                                                          *)
(***************************************************************************)
\* a lookup check that looks at the config record only
KeypairNotFoundConfigOnly(cfgText, mintText) == cfgText = Null

\* a co-signer that compiles each message anew before signing it
TokenTxsCoSignRecompiled(req, configTx, poolTx, configKP, mintKP) ==
    LET fresh(tx) == [tx EXCEPT !.msg.kind = "recompiled"]
        cfgSig == [by |-> configKP.publicKey, over |-> fresh(configTx).msg]
        mintSig == [by |-> mintKP.publicKey, over |-> fresh(poolTx).msg]
    IN  [handler |-> "sign-token-txs", req |-> req, status |-> 200, threw |-> FALSE,
         error |-> "",
         signedConfigTx |-> [form |-> "tx", nsig |-> Len(configTx.sigs),
                             sigs |-> [configTx.sigs EXCEPT ![Len(configTx.sigs)] = cfgSig],
                             msg |-> fresh(configTx).msg],
         signedPoolTx |-> [form |-> "tx", nsig |-> Len(poolTx.sigs),
                           sigs |-> [poolTx.sigs EXCEPT ![Len(poolTx.sigs)] = mintSig],
                           msg |-> fresh(poolTx).msg],
         signatures |-> 2, upstream |-> {}, writes |-> {}, baseMint |-> "",
         transaction |-> [form |-> "", nsig |-> 0, sigs |-> <<>>,
                          msg |-> [kind |-> "", id |-> "", signers |-> <<>>]]]

\* !walletAddress || !poolConfigKey || !mint || !signedConfigTx || !signedPoolTx
TokenFieldsMissing(req) ==
    \/ req.walletAddress = Missing
    \/ req.poolConfigKey = Missing
    \/ req.mint = Missing
    \/ req.signedConfigTx = NoWire
    \/ req.signedPoolTx = NoWire

\* !cfgSecretJson || !mintSecretJson
KeypairNotFound(cfgText, mintText) == cfgText = Null \/ mintText = Null

\* a co-signer that signs the pool message for the config transaction and
\* the config message for the pool transaction
TokenTxsCoSignCrossed(req, configTx, poolTx, configKP, mintKP) ==
    LET cfgSig == [by |-> configKP.publicKey, over |-> poolTx.msg]
        mintSig == [by |-> mintKP.publicKey, over |-> configTx.msg]
        put(tx, key, sig) ==
            [form |-> "tx", nsig |-> Len(tx.sigs),
             sigs |-> [i \in 1..Len(tx.sigs) |->
                          IF tx.msg.signers[i] = key THEN sig ELSE tx.sigs[i]],
             msg |-> tx.msg]
    IN  [handler |-> "sign-token-txs", req |-> req, status |-> 200, threw |-> FALSE,
         error |-> "",
         signedConfigTx |-> put(configTx, configKP.publicKey, cfgSig),
         signedPoolTx |-> put(poolTx, mintKP.publicKey, mintSig),
         signatures |-> 2, upstream |-> {}, writes |-> {}, baseMint |-> "",
         transaction |-> [form |-> "", nsig |-> 0, sigs |-> <<>>,
                          msg |-> [kind |-> "", id |-> "", signers |-> <<>>]]]

\* configTx.addSignature / poolTx.addSignature and the 200 response
TokenTxsCoSign(req, configTx, poolTx, configKP, mintKP) ==
    LET cfgSig == SignDetached(MessageBytes(configTx), configKP.secretKey)
        cfgAdd == AddSignature(configTx, configKP.publicKey, cfgSig)
        mintSig == SignDetached(MessageBytes(poolTx), mintKP.secretKey)
        poolAdd == AddSignature(poolTx, mintKP.publicKey, mintSig)
    IN  IF ~cfgAdd.ok THEN Thrown("sign-token-txs", req, 1)
        ELSE IF ~poolAdd.ok THEN Thrown("sign-token-txs", req, 2)
        ELSE Response("sign-token-txs", req, 200, "",
                      Serialize(cfgAdd.tx), Serialize(poolAdd.tx), 2)

\* the handler, from the parsed body to its response
SignTokenTxs(store, req) ==
    IF TokenFieldsMissing(req)
    THEN Response("sign-token-txs", req, 400, "Missing required fields", NoWire, NoWire, 0)
    ELSE
    LET cfgText == RedisGet(store, SignerKey(req.walletAddress, req.poolConfigKey, "config"))
        mintText == RedisGet(store, SignerKey(req.walletAddress, req.mint, "mint"))
    IN  IF KeypairNotFound(cfgText, mintText)
        THEN Response("sign-token-txs", req, 404, "Keypair not found", NoWire, NoWire, 0)
        ELSE
        LET cfgSecret == JsonParse(cfgText)
            mintSecret == JsonParse(mintText)
            configKP == KeypairFromSecretKey(cfgSecret.bytes)
            mintKP == KeypairFromSecretKey(mintSecret.bytes)
            configTx == Deserialize(req.signedConfigTx)
            poolTx == Deserialize(req.signedPoolTx)
        IN  IF ~cfgSecret.ok \/ ~mintSecret.ok \/ ~configKP.ok \/ ~mintKP.ok
            THEN Thrown("sign-token-txs", req, 0)
            ELSE IF ~configTx.ok \/ ~poolTx.ok
            THEN Response("sign-token-txs", req, 400, "Invalid transaction data", NoWire, NoWire, 0)
            ELSE TokenTxsCoSign(req, configTx.tx, poolTx.tx, configKP, mintKP)

(***************************************************************************)
(* sign-pool-tx                                                            *)
(***************************************************************************)
\* !walletAddress || !poolConfigKey || !mint || !signedPoolTx
PoolFieldsMissing(req) ==
    \/ req.walletAddress = Missing
    \/ req.poolConfigKey = Missing
    \/ req.mint = Missing
    \/ req.signedPoolTx = NoWire

\* the mint signature, then the treasury signature, and the 200 response
PoolTxCoSign(req, poolTx, mintKP) ==
    LET mintSig == SignDetached(MessageBytes(poolTx), mintKP.secretKey)
        mintAdd == AddSignature(poolTx, mintKP.publicKey, mintSig)
        treasurySig == SignDetached(MessageBytes(poolTx), SecretKey(TreasuryPubkey))
        treasuryAdd == AddSignature(mintAdd.tx, TreasuryPubkey, treasurySig)
    IN  IF ~mintAdd.ok THEN Thrown("sign-pool-tx", req, 1)
        ELSE IF ~treasuryAdd.ok THEN Thrown("sign-pool-tx", req, 2)
        ELSE Response("sign-pool-tx", req, 200, "", NoWire, Serialize(treasuryAdd.tx), 2)

SignPoolTx(store, req) ==
    IF PoolFieldsMissing(req)
    THEN Response("sign-pool-tx", req, 400, "Missing required fields", NoWire, NoWire, 0)
    ELSE
    LET mintText == RedisGet(store, SignerKey(req.walletAddress, req.mint, "mint"))
    IN  IF mintText = Null
        THEN Response("sign-pool-tx", req, 404, "Keypair not found", NoWire, NoWire, 0)
        ELSE
        LET mintSecret == FromBase64(mintText)
            mintKP == KeypairFromSecretKey(mintSecret.bytes)
            poolTx == Deserialize(req.signedPoolTx)
        IN  IF ~mintKP.ok THEN Thrown("sign-pool-tx", req, 0)
            ELSE IF ~poolTx.ok
            THEN Response("sign-pool-tx", req, 400, "Invalid transaction data", NoWire, NoWire, 0)
            ELSE PoolTxCoSign(req, poolTx.tx, mintKP)

(***************************************************************************)
(* create-token-meteora: one request runs through its awaited steps.       *)
(***************************************************************************)
IdleRequest ==
    [pc |-> "idle", walletAddress |-> "", token |-> "", invalid |-> "",
     tokenType |-> 1, status |-> 0, error |-> "", upstream |-> {}, writes |-> {},
     configIndex |-> 0, configPubkey |-> "", mintPubkey |-> "",
     transactions |-> <<>>, mint |-> "", poolConfigKey |-> ""]

\* the request ends with an error envelope
Fail(q, status, error) == [q EXCEPT !.pc = "done", !.status = status, !.error = error]

\* the checks on the parsed body, in the handler's order; "" when it passes
ValidationError(walletAddress, token, invalid) ==
    IF walletAddress = Missing THEN "Missing or invalid walletAddress"
    ELSE IF token = Missing THEN "Missing or invalid token data"
    ELSE IF invalid = "decimals" THEN "Invalid decimals; must be integer between 0 and 18"
    ELSE IF invalid = "initialSupply" THEN "Invalid initialSupply; must be non-negative number"
    ELSE IF invalid = "isLockLiquidity" THEN "Invalid isLockLiquidity; must be boolean"
    ELSE ""

\* new PublicKey(address) succeeds
IsPublicKey(address) == address # Missing /\ address # BadAddress

\* vtx.sign(signers): signs in turn, throwing at the first key that is no
\* required signer and keeping the signatures already made
RECURSIVE SignWith(_, _)
SignWith(tx, signers) ==
    IF signers = <<>> THEN [ok |-> TRUE, tx |-> tx]
    ELSE LET add == AddSignature(tx, Head(signers),
                        SignDetached(MessageBytes(tx), SecretKey(Head(signers))))
         IN  IF ~add.ok THEN add ELSE SignWith(add.tx, Tail(signers))

\* a buildAndSign that leaves every slot empty
BuildUnsigned(message, signers) ==
    [form |-> "tx", nsig |-> Len(message.signers),
     sigs |-> [i \in 1..Len(message.signers) |-> EmptySig], msg |-> message]

\* buildAndSign(instructions, signers): try { vtx.sign(signers) } catch {}
BuildAndSign(message, signers) == Serialize(SignWith(NewTransaction(message), signers).tx)

\* poolCreator = TREASURY_PUBKEY ?? userPubkey
PoolCreator(userPubkey, treasury) == IF treasury THEN TreasuryPubkey ELSE userPubkey

\* the signer keys of the three messages: the payer first
MintMessage(userPubkey, mintPubkey) ==
    Message("mint", mintPubkey, <<userPubkey, mintPubkey>>)

ConfigMessage(userPubkey, configPubkey) ==
    Message("config", configPubkey, <<userPubkey, configPubkey>>)

PoolMessage(userPubkey, mintPubkey, treasury) ==
    Message("pool", mintPubkey,
            IF PoolCreator(userPubkey, treasury) = userPubkey
            THEN <<userPubkey, mintPubkey>>
            ELSE <<userPubkey, mintPubkey, TreasuryPubkey>>)

\* a response that lists the pool transaction before the config transaction
SerializedTxsPoolFirst(q, treasury) ==
    <<BuildAndSign(PoolMessage(q.walletAddress, q.mintPubkey, treasury), <<q.mintPubkey>>),
      BuildAndSign(ConfigMessage(q.walletAddress, q.configPubkey), <<q.configPubkey>>)>>

\* serializedTxs of the 200 response
SerializedTxs(q, treasury) ==
    LET poolSigners == IF treasury THEN <<q.mintPubkey, TreasuryPubkey>>
                       ELSE <<q.mintPubkey>>
    IN  (IF q.tokenType = 0
         THEN <<BuildAndSign(MintMessage(q.walletAddress, q.mintPubkey), <<q.mintPubkey>>)>>
         ELSE <<>>)
        \o <<BuildAndSign(ConfigMessage(q.walletAddress, q.configPubkey), <<q.configPubkey>>),
             BuildAndSign(PoolMessage(q.walletAddress, q.mintPubkey, treasury), poolSigners)>>

\* the body of a create-token-meteora request
TokenRequest(walletAddress, token, invalid) ==
    [NoRequest EXCEPT !.walletAddress = walletAddress, !.token = token, !.invalid = invalid]

\* validation of the body, then createTokenMetadata(token); a request that
\* ends here answers at once, the others go on to the config index
CreateTokenBegin(r) ==
    /\ resp = NoResponse
    /\ reqs[r].pc = "idle"
    /\ \A s \in 1..(r - 1) : reqs[s].pc # "idle"
    /\ \E walletAddress \in Wallets \cup {Missing, BadAddress},
          token \in {Missing, "noimage", "ok"},
          invalid \in {"", "decimals", "initialSupply", "isLockLiquidity"} :
          LET req == TokenRequest(walletAddress, token, invalid)
              err == ValidationError(walletAddress, token, invalid)
              answer(status, error, upstream) ==
                  /\ resp' = [Response("create-token", req, status, error, NoWire, NoWire, 0)
                                 EXCEPT !.upstream = upstream]
                  /\ reqs' = reqs
          IN  IF err # "" THEN answer(400, err, {})
              ELSE IF token = "noimage"
              THEN answer(500, "No image provided for token creation", {})
              ELSE \/ answer(500, "Failed to upload metadata", {"metadata"})
                   \/ /\ reqs' = [reqs EXCEPT ![r] =
                             [reqs[r] EXCEPT !.pc = "alloc", !.walletAddress = walletAddress,
                                             !.token = token, !.upstream = {"metadata"}]]
                      /\ resp' = resp
    /\ UNCHANGED <<redis, dbcPool, counter, nextKey, treasurySet, apart>>

\* an allocation that hands out the index and leaves the counter where it was
CreateTokenAllocateUnincremented(r) ==
    /\ resp = NoResponse
    /\ reqs[r].pc = "alloc"
    /\ LET q == [reqs[r] EXCEPT !.upstream = @ \cup {"firestore"}]
           next == IF counter.exists THEN counter.nextIndex ELSE 1
       IN  /\ counter' = [exists |-> TRUE, nextIndex |-> next]
           /\ reqs' = [reqs EXCEPT ![r] = [q EXCEPT !.pc = "config", !.configIndex = next]]
    /\ UNCHANGED <<redis, dbcPool, nextKey, resp, treasurySet, apart>>

\* firestore.runTransaction on counters/dbcConfigIndex
CreateTokenAllocate(r) ==
    /\ resp = NoResponse
    /\ reqs[r].pc = "alloc"
    /\ \E committed \in BOOLEAN :
          LET q == [reqs[r] EXCEPT !.upstream = @ \cup {"firestore"}]
              next == IF counter.exists THEN counter.nextIndex ELSE 1
          IN  IF committed
              THEN /\ counter' = [exists |-> TRUE, nextIndex |-> next + 1]
                   /\ reqs' = [reqs EXCEPT ![r] = [q EXCEPT !.pc = "config", !.configIndex = next]]
              ELSE /\ counter' = counter
                   /\ reqs' = [reqs EXCEPT ![r] = Fail(q, 500, "Failed to allocate config index")]
    /\ UNCHANGED <<redis, dbcPool, nextKey, resp, treasurySet, apart>>

\* Keypair.generate() for the config, redis.set of its secret, new
\* PublicKey(walletAddress), Keypair.generate() for the mint
CreateTokenStoreConfig(r) ==
    /\ resp = NoResponse
    /\ reqs[r].pc = "config"
    /\ \E stored \in BOOLEAN :
          LET configPubkey == GeneratedKey(nextKey + 1)
              key == SignerKey(reqs[r].walletAddress, configPubkey, "config")
              q == [reqs[r] EXCEPT !.configPubkey = configPubkey]
              w == [q EXCEPT !.writes = @ \cup {key}]
          IN  IF ~stored
              THEN /\ redis' = redis
                   /\ nextKey' = nextKey + 1
                   /\ reqs' = [reqs EXCEPT ![r] = Fail(q, 500, "redis.set failed")]
              ELSE /\ redis' = RedisSet(redis, key, ToBase64(SecretKey(configPubkey)))
                   /\ IF ~IsPublicKey(reqs[r].walletAddress)
                      THEN /\ nextKey' = nextKey + 1
                           /\ reqs' = [reqs EXCEPT ![r] = Fail(w, 400, "Invalid walletAddress")]
                      ELSE /\ nextKey' = nextKey + 2
                           /\ reqs' = [reqs EXCEPT ![r] =
                                  [w EXCEPT !.pc = "mint", !.mintPubkey = GeneratedKey(nextKey + 2)]]
    /\ UNCHANGED <<dbcPool, counter, resp, treasurySet, apart>>

\* a step that generates the mint keypair and goes on without storing it
CreateTokenStoreMintUnsaved(r) ==
    /\ resp = NoResponse
    /\ reqs[r].pc = "mint"
    /\ reqs' = [reqs EXCEPT ![r] = [reqs[r] EXCEPT !.pc = "build"]]
    /\ UNCHANGED <<redis, dbcPool, counter, nextKey, resp, treasurySet, apart>>

\* redis.set of the mint secret
CreateTokenStoreMint(r) ==
    /\ resp = NoResponse
    /\ reqs[r].pc = "mint"
    /\ \E stored \in BOOLEAN :
          LET key == SignerKey(reqs[r].walletAddress, reqs[r].mintPubkey, "mint")
          IN  IF ~stored
              THEN /\ redis' = redis
                   /\ reqs' = [reqs EXCEPT ![r] = Fail(reqs[r], 500, "redis.set failed")]
              ELSE /\ redis' = RedisSet(redis, key, ToBase64(SecretKey(reqs[r].mintPubkey)))
                   /\ reqs' = [reqs EXCEPT ![r] =
                          [reqs[r] EXCEPT !.pc = "build", !.writes = @ \cup {key}]]
    /\ UNCHANGED <<dbcPool, counter, nextKey, resp, treasurySet, apart>>

\* a build step that deletes the request's signer records when it fails
CreateTokenBuildCleaning(r) ==
    /\ resp = NoResponse
    /\ reqs[r].pc = "build"
    /\ \E outcome \in {"sdk-failed", "blockhash-failed", "built"} :
          LET q == [reqs[r] EXCEPT !.upstream = @ \cup {"rpc", "sdk"}]
          IN  /\ redis' = IF outcome = "built" THEN redis
                          ELSE [k \in DOMAIN redis \ q.writes |-> redis[k]]
              /\ reqs' = [reqs EXCEPT ![r] =
                     IF outcome = "built"
                     THEN [q EXCEPT !.pc = "done", !.status = 200,
                                    !.transactions = SerializedTxs(q, treasurySet),
                                    !.mint = q.mintPubkey,
                                    !.poolConfigKey = q.configPubkey]
                     ELSE Fail(q, 500, outcome)]
    /\ UNCHANGED <<dbcPool, counter, nextKey, resp, treasurySet, apart>>

\* the rent query, createConfigAndPoolWithFirstBuy, redis.hset of the pool
\* hash, buildAndSign of each transaction, the 200 response
CreateTokenBuild(r) ==
    /\ resp = NoResponse
    /\ reqs[r].pc = "build"
    /\ \E outcome \in {"sdk-failed", "blockhash-failed", "built"}, tokenType \in {0, 1} :
          LET q == [reqs[r] EXCEPT !.upstream = @ \cup {"rpc", "sdk"},
                                   !.tokenType = IF outcome = "built" THEN tokenType ELSE @]
              hash == [deployer |-> q.walletAddress, mint |-> q.mintPubkey,
                       poolConfigKey |-> q.configPubkey]
          IN  /\ dbcPool' = IF outcome = "sdk-failed" THEN dbcPool ELSE dbcPool \cup {hash}
              /\ reqs' = [reqs EXCEPT ![r] =
                     IF outcome = "built"
                     THEN [q EXCEPT !.pc = "done", !.status = 200,
                                    !.transactions = SerializedTxs(q, treasurySet),
                                    !.mint = q.mintPubkey,
                                    !.poolConfigKey = q.configPubkey]
                     ELSE Fail(q, 500, outcome)]
    /\ UNCHANGED <<redis, counter, nextKey, resp, treasurySet, apart>>

(***************************************************************************)
(* create-pool                                                             *)
(***************************************************************************)
\* the create-pool message: the treasury pays, the base mint and the pool
\* creator sign
CreatePoolMessage(walletAddress, baseMint) ==
    Message("create-pool", baseMint, <<TreasuryPubkey, baseMint, walletAddress>>)

\* whether the instructions of a message end with a swap: the SDK's
\* createPool builds the pool initialisation alone
HasSwap(message) == message.kind = "create-pool-with-first-buy"

\* the buyAmount values a create-pool body may carry (the field is optional)
BuyAmounts == {0, 1}

\* a create-pool that asks the SDK for a first buy when buyAmount > 0
CreatePoolWithFirstBuy(req, outcome) ==
    LET kind == IF req.buyAmount > 0 THEN "create-pool-with-first-buy" ELSE "create-pool"
        message == [kind |-> kind, id |-> BaseMintKey,
                    signers |-> <<TreasuryPubkey, BaseMintKey, req.walletAddress>>]
    IN  [Response("create-pool", req, 200, "", NoWire, NoWire, 0)
            EXCEPT !.upstream = {"metadata", "sdk", "rpc"}, !.baseMint = BaseMintKey,
                   !.transaction = Serialize(NewTransaction(message))]

\* a create-pool that generates the base mint keypair before it publishes
\* the metadata, the publication failing
CreatePoolEagerMint(req, outcome) ==
    [Response("create-pool", req, 500, "metadata upload failed", NoWire, NoWire, 0)
        EXCEPT !.upstream = {"metadata"}, !.baseMint = BaseMintKey]

\* the handler, from the parsed body to its response; outcome is what the
\* metadata upload and the SDK and RPC calls do
CreatePool(req, outcome) ==
    LET answer(status, error, upstream) ==
            [Response("create-pool", req, status, error, NoWire, NoWire, 0)
                EXCEPT !.upstream = upstream]
        baseMint == BaseMintKey
        vtx == SignWith(NewTransaction(CreatePoolMessage(req.walletAddress, baseMint)),
                        <<baseMint, TreasuryPubkey>>)
    IN  IF req.walletAddress = Missing \/ req.configKey = Missing \/ req.token = Missing
        THEN answer(400, "walletAddress, configKey and token are required", {})
        ELSE IF req.token = "noimage"
        THEN answer(500, "createTokenMetadata: missing imageUrl", {})
        ELSE IF outcome = "metadata-failed"
        THEN answer(500, "metadata upload failed", {"metadata"})
        ELSE IF ~IsPublicKey(req.configKey) \/ ~IsPublicKey(req.walletAddress)
        THEN [answer(500, "Invalid public key input", {"metadata"}) EXCEPT !.baseMint = baseMint]
        ELSE IF outcome = "sdk-failed" \/ ~vtx.ok
        THEN [answer(500, "internal error", {"metadata", "sdk", "rpc"})
                 EXCEPT !.baseMint = baseMint]
        ELSE [answer(200, "", {"metadata", "sdk", "rpc"})
                 EXCEPT !.baseMint = baseMint, !.transaction = Serialize(vtx.tx)]

CreatePoolRequest ==
    /\ resp = NoResponse
    /\ treasurySet
    /\ \E walletAddress \in {Missing, BadAddress, "w1"},
          configKey \in {Missing, "presetcfg"},
          token \in {Missing, "noimage", "ok"},
          buyAmount \in BuyAmounts,
          outcome \in {"metadata-failed", "sdk-failed", "ok"} :
          resp' = CreatePool([NoRequest EXCEPT !.walletAddress = walletAddress,
                                               !.configKey = configKey, !.token = token,
                                               !.buyAmount = buyAmount],
                             outcome)
    /\ UNCHANGED <<redis, dbcPool, counter, nextKey, reqs, treasurySet, apart>>

(***************************************************************************)
(* The client of the test harness: it signs what create-token-meteora      *)
(* returned and sends it to the signing endpoints.                         *)
(***************************************************************************)
\* walletSignTransaction(tx, wallet): deserialize, sign([wallet]), serialize
WalletSignTransaction(wire, wallet) ==
    LET d == Deserialize(wire)
    IN  IF ~d.ok THEN wire ELSE Serialize(SignWith(d.tx, <<wallet>>).tx)

\* the sign-token-txs body the harness posts for a create-token response
HarnessTokenRequest(q, walletAddress) ==
    [NoRequest EXCEPT !.walletAddress = walletAddress,
                      !.poolConfigKey = q.poolConfigKey,
                      !.mint = q.mint,
                      !.signedConfigTx = WalletSignTransaction(q.transactions[1], q.walletAddress),
                      !.signedPoolTx = WalletSignTransaction(q.transactions[2], q.walletAddress)]

\* the shapes in which a client may send a transaction of a given message:
\* no field, bytes that are no transaction, a signature array one short, and
\* the message with its slots empty, signed or filled with other bytes
WireForms ==
    {"absent", "garbage", "truncated", "unsigned", "client", "issued", "full", "junk"}

WireOf(message, client, form) ==
    LET slot(i) ==
            IF message.signers[i] = client
            THEN IF form \in {"client", "full", "junk"}
                 THEN SignDetached(message, SecretKey(client)) ELSE EmptySig
            ELSE IF form \in {"issued", "full"}
                 THEN SignDetached(message, SecretKey(message.signers[i]))
                 ELSE IF form = "junk" THEN JunkSig ELSE EmptySig
        tx == [msg |-> message, sigs |-> [i \in 1..Len(message.signers) |-> slot(i)]]
    IN  IF form = "absent" THEN NoWire
        ELSE IF form = "garbage" THEN GarbageWire
        ELSE IF form = "truncated"
        THEN [Serialize(tx) EXCEPT !.nsig = @ - 1, !.sigs = Tail(@)]
        ELSE Serialize(tx)

\* the shapes of the two transactions of one sign-token-txs body
FormPairs ==
    {p \in WireForms \X WireForms : p[1] = p[2] \/ p[1] = "client" \/ p[2] = "client"}

\* the subjects a client can name: the keys create-token-meteora generated,
\* those of the earlier deployment, or none
MintSubjects ==
    {Missing, LegacyMint} \cup {reqs[r].mintPubkey : r \in 1..MaxRequests}

SubjectPairs ==
    {<<LegacyConfig, LegacyMint>>, <<Missing, LegacyMint>>, <<LegacyConfig, Missing>>}
    \cup {<<reqs[r].configPubkey, reqs[r].mintPubkey>> : r \in 1..MaxRequests}
    \cup {<<reqs[r].configPubkey, LegacyMint>> : r \in 1..MaxRequests}

\* the bodies sign-token-txs and sign-pool-tx receive
ClientRequest(walletAddress, poolConfigKey, mint, cfgForm, poolForm) ==
    LET payer == IF walletAddress = Missing THEN LegacyOwner ELSE walletAddress
        cfgKey == IF poolConfigKey = Missing THEN LegacyConfig ELSE poolConfigKey
        mintKey == IF mint = Missing THEN LegacyMint ELSE mint
    IN  [NoRequest EXCEPT
            !.walletAddress = walletAddress,
            !.poolConfigKey = poolConfigKey,
            !.mint = mint,
            !.signedConfigTx = WireOf(ConfigMessage(payer, cfgKey), payer, cfgForm),
            !.signedPoolTx = WireOf(PoolMessage(payer, mintKey, treasurySet), payer, poolForm)]

ClientTokenRequests ==
    {ClientRequest(w, s[1], s[2], f[1], f[2]) :
        w \in Wallets \cup {Missing}, s \in SubjectPairs, f \in FormPairs}
    \cup {HarnessTokenRequest(reqs[r], reqs[r].walletAddress) :
            r \in {x \in 1..MaxRequests : reqs[x].status = 200}}

ClientPoolRequests ==
    {ClientRequest(w, c, m, "absent", pf) :
        w \in Wallets \cup {Missing}, c \in {Missing, LegacyConfig}, m \in MintSubjects,
        pf \in WireForms}

\* a sign-token-txs that drops the config record once it has been read
SignTokenTxsRequestConsuming ==
    /\ resp = NoResponse
    /\ \E req \in ClientTokenRequests :
          /\ resp' = SignTokenTxs(redis, req)
          /\ redis' = [k \in DOMAIN redis \ {SignerKey(req.walletAddress, req.poolConfigKey, "config")}
                          |-> redis[k]]
    /\ UNCHANGED <<dbcPool, counter, nextKey, reqs, treasurySet, apart>>

SignTokenTxsRequest ==
    /\ resp = NoResponse
    /\ \E req \in ClientTokenRequests : resp' = SignTokenTxs(redis, req)
    /\ UNCHANGED <<redis, dbcPool, counter, nextKey, reqs, treasurySet, apart>>

SignPoolTxRequest ==
    /\ resp = NoResponse
    /\ treasurySet
    /\ \E req \in ClientPoolRequests : resp' = SignPoolTx(redis, req)
    /\ UNCHANGED <<redis, dbcPool, counter, nextKey, reqs, treasurySet, apart>>

\* the client of create-pool signs the returned transaction and asks
\* sign-pool-tx for the base mint it was given
CreatePoolFollowUp ==
    /\ resp.handler = "create-pool"
    /\ resp.status = 200
    /\ resp' = SignPoolTx(redis, [NoRequest EXCEPT
            !.walletAddress = resp.req.walletAddress,
            !.poolConfigKey = resp.req.configKey,
            !.mint = resp.baseMint,
            !.signedPoolTx = WalletSignTransaction(resp.transaction, resp.req.walletAddress)])
    /\ UNCHANGED <<redis, dbcPool, counter, nextKey, reqs, treasurySet, apart>>

\* the response has been returned to its caller
ReturnResponse ==
    /\ resp # NoResponse
    /\ resp' = NoResponse
    /\ UNCHANGED <<redis, dbcPool, counter, nextKey, reqs, treasurySet, apart>>

(***************************************************************************)
(* marketplace: GET lists the v2 tokens of leaderboard:v2 with the fields   *)
(* of their token:v2:{mint} hashes.  Nothing in the repository writes the   *)
(* leaderboard, so it is whatever the deployment holds.                    *)
(***************************************************************************)
Mints == {"m1", "m2", "m3"}
LaunchTimes == {1, 2}
Launchpads == {"lp1", "lp2"}
GroupKeys == {"recent", "aboutToGraduate", "graduated"}

NoHash == [known |-> FALSE, depositLamports |-> 0, launchpad |-> ""]

TokenHashes ==
    {NoHash} \cup [known : {TRUE}, depositLamports : {1, 2}, launchpad : Launchpads]

(* ZRANGE leaderboard:v2 0 -1 REV WITHSCORES: distinct members, highest   *)
(* score first.                                                            *)
Leaderboards ==
    {b \in UNION {[1..n -> [mint : Mints, launchTime : LaunchTimes]] : n \in 0..MaxTokens} :
        /\ \A i, j \in DOMAIN b : i # j => b[i].mint # b[j].mint
        /\ \A i, j \in DOMAIN b : i < j => b[i].launchTime >= b[j].launchTime}

NoMarketRequest == [method |-> "", form |-> "", groups |-> {}, partner |-> ""]

MarketRequests ==
    [method : {"OPTIONS", "POST"}, form : {"absent"}, groups : {{}}, partner : {""}]
    \cup [method : {"GET"}, form : {"absent", "invalid", "null"}, groups : {{}}, partner : {""}]
    \cup [method : {"GET"}, form : {"json"}, groups : SUBSET GroupKeys,
          partner : {""} \cup Launchpads]

MarketResponse(req, fail, status, error, body, entries, groups, lookups) ==
    [req |-> req, fail |-> fail, status |-> status, error |-> error, body |-> body,
     entries |-> entries, groups |-> groups, lookups |-> lookups]

NoMarketResponse == MarketResponse(NoMarketRequest, "", 0, "", "", <<>>, <<>>, 0)

IdleMarket == [board |-> <<>>, hashes |-> [m \in Mints |-> NoHash], resp |-> NoMarketResponse]

Entry(token, hash) ==
    [mint |-> token.mint, launchTime |-> token.launchTime, known |-> hash.known,
     depositLamports |-> hash.depositLamports, launchpad |-> hash.launchpad]

(* entries.sort: launchTime descending, then depositLamports descending.  *)
SortsBefore(a, b) ==
    \/ a.launchTime > b.launchTime
    \/ a.launchTime = b.launchTime /\ a.depositLamports > b.depositLamports

RECURSIVE InsertEntry(_, _)
InsertEntry(sorted, e) ==
    IF sorted = <<>> THEN <<e>>
    ELSE LET last == sorted[Len(sorted)]
         IN  IF SortsBefore(e, last)
             THEN Append(InsertEntry(SubSeq(sorted, 1, Len(sorted) - 1), e), last)
             ELSE Append(sorted, e)

RECURSIVE SortEntries(_)
SortEntries(entries) ==
    IF entries = <<>> THEN <<>>
    ELSE InsertEntry(SortEntries(SubSeq(entries, 1, Len(entries) - 1)),
                     entries[Len(entries)])

FilterPools(entries, partner) ==
    IF partner = "" THEN entries
    ELSE SelectSeq(entries, LAMBDA e : e.launchpad = partner)

(* The `req` query parameter, once the entries are there. *)
MarketplaceAnswerLenient(req, fail, entries) ==
    IF req.form \in {"absent", "invalid"}
    THEN MarketResponse(req, fail, 200, "", "entries", entries, <<>>, Len(entries))
    ELSE IF req.form = "null"
    THEN MarketResponse(req, fail, 500, "Internal Server Error", "error", <<>>, <<>>,
                        Len(entries))
    ELSE MarketResponse(req, fail, 200, "", "grouped", <<>>,
                        [k \in req.groups |-> FilterPools(entries, req.partner)],
                        Len(entries))

MarketplaceAnswer(req, fail, entries) ==
    IF req.form = "absent"
    THEN MarketResponse(req, fail, 200, "", "entries", entries, <<>>, Len(entries))
    ELSE IF req.form = "invalid"
    THEN MarketResponse(req, fail, 400, "Invalid req param JSON", "error", <<>>, <<>>,
                        Len(entries))
    ELSE IF req.form = "null"
    THEN MarketResponse(req, fail, 500, "Internal Server Error", "error", <<>>, <<>>,
                        Len(entries))
    ELSE MarketResponse(req, fail, 200, "", "grouped", <<>>,
                        [k \in req.groups |-> FilterPools(entries, req.partner)],
                        Len(entries))

MarketplaceParamFirst(board, hashes, req, fail) ==
    IF req.method = "OPTIONS"
    THEN MarketResponse(req, fail, 204, "", "", <<>>, <<>>, 0)
    ELSE IF req.method # "GET"
    THEN MarketResponse(req, fail, 405, "Method not allowed; use GET", "error", <<>>, <<>>, 0)
    ELSE IF req.form = "invalid"
    THEN MarketResponse(req, fail, 400, "Invalid req param JSON", "error", <<>>, <<>>, 0)
    ELSE IF fail = "zrange"
    THEN MarketResponse(req, fail, 500, "Internal Server Error", "error", <<>>, <<>>, 0)
    ELSE IF board = <<>>
    THEN MarketResponse(req, fail, 200, "", "entries", <<>>, <<>>, 0)
    ELSE IF fail = "pipeline"
    THEN MarketResponse(req, fail, 500, "Internal Server Error", "error", <<>>, <<>>, 0)
    ELSE MarketplaceAnswer(req, fail,
             SortEntries([i \in DOMAIN board |-> Entry(board[i], hashes[board[i].mint])]))

(* The handler: fail names the store call that throws, if any. *)
Marketplace(board, hashes, req, fail) ==
    IF req.method = "OPTIONS"
    THEN MarketResponse(req, fail, 204, "", "", <<>>, <<>>, 0)
    ELSE IF req.method # "GET"
    THEN MarketResponse(req, fail, 405, "Method not allowed; use GET", "error", <<>>, <<>>, 0)
    ELSE IF fail = "zrange"
    THEN MarketResponse(req, fail, 500, "Internal Server Error", "error", <<>>, <<>>, 0)
    ELSE IF board = <<>>
    THEN MarketResponse(req, fail, 200, "", "entries", <<>>, <<>>, 0)
    ELSE IF fail = "pipeline"
    THEN MarketResponse(req, fail, 500, "Internal Server Error", "error", <<>>, <<>>, 0)
    ELSE MarketplaceAnswer(req, fail,
             SortEntries([i \in DOMAIN board |-> Entry(board[i], hashes[board[i].mint])]))

MarketplaceRequest ==
    /\ market.resp = NoMarketResponse
    /\ \E req \in MarketRequests, fail \in {"", "zrange", "pipeline"} :
           market' = [market EXCEPT
                          !.resp = Marketplace(market.board, market.hashes, req, fail)]
    /\ UNCHANGED <<redis, dbcPool, counter, nextKey, reqs, resp, treasurySet,
                   stats, script, deposit>>

MarketplaceReturn ==
    /\ market.resp # NoMarketResponse
    /\ market' = [market EXCEPT !.resp = NoMarketResponse]
    /\ UNCHANGED <<redis, dbcPool, counter, nextKey, reqs, resp, treasurySet,
                   stats, script, deposit>>

(***************************************************************************)
(* platform-stats: counts from the two leaderboards of the store, sums from *)
(* the Jupiter gems request and one asset lookup per recent pool.          *)
(***************************************************************************)
AssetIds == {"a1", "a2"}

(* What the asset search returns for an id, when it answers. *)
AssetOf(id) ==
    IF id = "a1"
    THEN [id |-> id, liquidity |-> 3, volume |-> 2, mcap |-> 5, priceChange |-> 1]
    ELSE [id |-> id, liquidity |-> 4, volume |-> 1, mcap |-> 7, priceChange |-> 2]

NoAsset == [id |-> "", liquidity |-> 0, volume |-> 0, mcap |-> 0, priceChange |-> 0]

(* How the lookup of one pool's asset ends. *)
AssetOutcomes == {"ok", "http-error", "throws", "bad-json", "no-base-asset"}

(* How the gems request ends. *)
GemsOutcomes == {"ok", "http-error", "throws", "bad-json"}

GemsPools ==
    UNION {[1..n -> [id : AssetIds, outcome : AssetOutcomes]] : n \in 0..MaxPools}

StoreFailures == {"", "zrange-v2", "zrange-24h", "zrange-hour"}

(* The array ZRANGE returns: member and score alternate under withScores. *)
RawLength(count, withScores) == IF withScores THEN 2 * count ELSE count

NoTop == [mint |-> "", value |-> 0]

NoStatsRequest ==
    [method |-> "", gems |-> "", pools |-> <<>>, graduated |-> 0, fail |-> ""]

StatsResponse(req, status, error, counts, sums, graduated) ==
    [req |-> req, status |-> status, error |-> error,
     totalTokensLaunched |-> counts[1], tokensLaunched24h |-> counts[2],
     tokensLaunchedLastHour |-> counts[3],
     totalLiquidityUSD |-> sums.liquidity, totalVolumeUSD |-> sums.volume,
     marketCap24h |-> sums.mcap, topGainer24h |-> sums.topGainer,
     topVolume24h |-> sums.topVolume,
     graduatedTokens |-> graduated,
     averageGraduationTime |-> IF graduated > 0 THEN 42 ELSE 0,  \* tenths of an hour
     activeUsers24h |-> 0 * 50,
     totalTransactions |-> counts[1] * 850]

NoSums ==
    [liquidity |-> 0, volume |-> 0, mcap |-> 0, topGainer |-> NoTop, topVolume |-> NoTop]

NoStatsResponse == StatsResponse(NoStatsRequest, 0, "", <<0, 0, 0>>, NoSums, 0)

IdleStats == [v2 |-> 0, day |-> 0, hour |-> 0, resp |-> NoStatsResponse]

(* assetDetails[idx]: null unless the lookup answered with JSON. *)
AssetDetail(pool) == IF pool.outcome = "ok" THEN AssetOf(pool.id) ELSE NoAsset

(* pools.forEach over the asset details. *)
RECURSIVE Aggregate(_)
Aggregate(pools) ==
    IF pools = <<>> THEN NoSums
    ELSE LET before == Aggregate(SubSeq(pools, 1, Len(pools) - 1))
             asset == AssetDetail(pools[Len(pools)])
         IN  IF asset = NoAsset THEN before
             ELSE [liquidity |-> before.liquidity + asset.liquidity,
                   volume |-> before.volume + asset.volume,
                   mcap |-> before.mcap + asset.mcap,
                   topGainer |-> IF asset.priceChange > before.topGainer.value
                                 THEN [mint |-> asset.id, value |-> asset.priceChange]
                                 ELSE before.topGainer,
                   topVolume |-> IF asset.volume > before.topVolume.value
                                 THEN [mint |-> asset.id, value |-> asset.volume]
                                 ELSE before.topVolume]

(* The inner try block: what it leaves in the accumulators. *)
GemsSums(req) ==
    IF req.gems # "ok" THEN NoSums
    ELSE IF \E i \in DOMAIN req.pools : req.pools[i].outcome = "no-base-asset" THEN NoSums
    ELSE Aggregate(req.pools)

GemsGraduated(req) == IF req.gems = "ok" THEN req.graduated ELSE 0

StatsError(req) ==
    StatsResponse(req, 500, "Internal Server Error", <<0, 0, 0>>, NoSums, 0)

PlatformStatsUnguarded(store, req) ==
    IF req.method = "OPTIONS" THEN StatsResponse(req, 204, "", <<0, 0, 0>>, NoSums, 0)
    ELSE IF req.method # "GET"
    THEN StatsResponse(req, 405, "Method not allowed; use GET", <<0, 0, 0>>, NoSums, 0)
    ELSE IF req.fail # "" \/ req.gems \in {"throws", "bad-json"} THEN StatsError(req)
    ELSE StatsResponse(req, 200, "",
                       <<RawLength(store.v2, TRUE) \div 2, RawLength(store.day, TRUE) \div 2,
                         RawLength(store.hour, FALSE)>>,
                       GemsSums(req), GemsGraduated(req))

(* The handler: req.fail names the store call that throws, if any. *)
PlatformStats(store, req) ==
    IF req.method = "OPTIONS" THEN StatsResponse(req, 204, "", <<0, 0, 0>>, NoSums, 0)
    ELSE IF req.method # "GET"
    THEN StatsResponse(req, 405, "Method not allowed; use GET", <<0, 0, 0>>, NoSums, 0)
    ELSE IF req.fail # "" THEN StatsError(req)
    ELSE StatsResponse(req, 200, "",
                       <<RawLength(store.v2, TRUE) \div 2, RawLength(store.day, TRUE) \div 2,
                         RawLength(store.hour, FALSE)>>,
                       GemsSums(req), GemsGraduated(req))

StatsRequests ==
    [method : {"OPTIONS", "POST"}, gems : {"ok"}, pools : {<<>>}, graduated : {0},
     fail : {""}]
    \cup [method : {"GET"}, gems : GemsOutcomes, pools : GemsPools, graduated : {0, 1},
          fail : StoreFailures]

PlatformStatsRequest ==
    /\ stats.resp = NoStatsResponse
    /\ \E req \in StatsRequests :
           stats' = [stats EXCEPT !.resp = PlatformStats(stats, req)]
    /\ UNCHANGED <<redis, dbcPool, counter, nextKey, reqs, resp, treasurySet,
                   market, script, deposit>>

PlatformStatsReturn ==
    /\ stats.resp # NoStatsResponse
    /\ stats' = [stats EXCEPT !.resp = NoStatsResponse]
    /\ UNCHANGED <<redis, dbcPool, counter, nextKey, reqs, resp, treasurySet,
                   market, script, deposit>>

(***************************************************************************)
(* create-pool-configs: the operator's script creates one config account   *)
(* per preset in a single batched transaction and then records the config  *)
(* keys in the store; recent-pool-configs reads them back.                 *)
(***************************************************************************)
Presets ==
    <<"Classic", "Hype", "Slow Ramp", "Trench Lock", "Builder">>

(* The public key of the i-th Keypair.generate() of a run. *)
ConfigKeyOf(run, i) == "c" \o ToString(run) \o "_" \o ToString(i)

TxSigOf(run) == "sig" \o ToString(run)

Max(a, b) == IF a > b THEN a ELSE b
Min(a, b) == IF a < b THEN a ELSE b

(* A sorted set is the sequence of its [member, score] in rank order,     *)
(* lowest score first.  ZADD of a new member whose score is the highest.   *)
ZAdd(z, member, score) == Append(z, [member |-> member, score |-> score])

(* The 0-based rank an index argument of a range command stands for. *)
RankOf(z, index) == IF index < 0 THEN Len(z) + index ELSE index

(* ZREMRANGEBYRANK key start stop *)
ZRemRangeByRank(z, start, stop) ==
    LET lo == Max(RankOf(z, start), 0)
        hi == Min(RankOf(z, stop), Len(z) - 1)
    IN  IF lo > hi THEN z
        ELSE SubSeq(z, 1, lo) \o SubSeq(z, hi + 2, Len(z))

RECURSIVE Reverse(_)
Reverse(q) == IF q = <<>> THEN <<>> ELSE Append(Reverse(Tail(q)), Head(q))

(* ZRANGE key start stop REV: the indexes count from the highest score. *)
ZRangeRev(z, start, stop) ==
    LET rev == Reverse(z)
        lo == Max(RankOf(z, start), 0)
        hi == Min(RankOf(z, stop), Len(z) - 1)
    IN  IF lo > hi THEN <<>>
        ELSE [i \in 1..(hi - lo + 1) |-> rev[lo + i].member]

NoListing == [status |-> 0, keys |-> <<>>]

IdleScript ==
    [pc |-> "idle", run |-> 0, dryRun |-> FALSE, poolKeys |-> <<>>,
     sent |-> FALSE, confirm |-> "", i |-> 0, step |-> "", exit |-> "",
     clock |-> 0, chain |-> {}, signers |-> {}, keys |-> <<>>, hashes |-> {},
     listed |-> NoListing]

ScriptFrame ==
    UNCHANGED <<redis, dbcPool, counter, nextKey, reqs, resp, treasurySet,
                market, stats, deposit>>

ScriptExit(code) == [script EXCEPT !.pc = "exited", !.exit = code]

(* main() up to the end of the preset loop: nothing leaves the process. *)
ScriptBuild ==
    /\ script.pc \in {"idle", "exited"}
    /\ script.run < MaxRuns
    /\ \E dryRun \in BOOLEAN, built \in BOOLEAN :
           LET run == script.run + 1
               started == [script EXCEPT !.run = run, !.dryRun = dryRun,
                                         !.poolKeys = <<>>, !.sent = FALSE,
                                         !.confirm = "", !.i = 0, !.step = "",
                                         !.exit = "", !.pc = "built"]
           IN  script' =
                   IF built
                   THEN [started EXCEPT
                             !.poolKeys = [i \in DOMAIN Presets |-> ConfigKeyOf(run, i)]]
                   ELSE [started EXCEPT !.pc = "exited", !.exit = "error"]
    /\ ScriptFrame

(* The DRY_RUN return, or the blockhash, the signing and sendTransaction. *)
ScriptSend ==
    /\ script.pc = "built"
    /\ \E outcome \in {"blockhash-failed", "send-failed", "sent"} :
           script' =
               IF script.dryRun THEN ScriptExit("ok")
               ELSE IF outcome # "sent" THEN ScriptExit("error")
               ELSE [script EXCEPT !.pc = "confirm", !.sent = TRUE]
    /\ ScriptFrame

ScriptConfirmUnawaited ==
    /\ script.pc = "confirm"
    /\ \E outcome \in {"throws", "finalized-ok", "finalized-err"} :
           script' =
               [script EXCEPT !.confirm = outcome, !.pc = "persist", !.i = 1,
                              !.step = "set",
                              !.chain = IF outcome = "throws" THEN @
                                        ELSE @ \cup {[txSig |-> TxSigOf(script.run),
                                                      result |-> outcome]}]
    /\ ScriptFrame

(* confirmTransaction(batchTxSig, 'finalized'): it throws, or resolves with *)
(* the result of the transaction, which the script does not look at.       *)
ScriptConfirm ==
    /\ script.pc = "confirm"
    /\ \E outcome \in {"throws", "finalized-ok", "finalized-err"} :
           script' =
               IF outcome = "throws"
               THEN [ScriptExit("error") EXCEPT !.confirm = outcome]
               ELSE [script EXCEPT !.confirm = outcome, !.pc = "persist", !.i = 1,
                                   !.step = "set",
                                   !.chain = @ \cup {[txSig |-> TxSigOf(script.run),
                                                      result |-> outcome]}]
    /\ ScriptFrame

(* One awaited write of the persist loop. *)
ScriptPersist ==
    /\ script.pc = "persist"
    /\ \E failed \in BOOLEAN :
           LET pubkey == script.poolKeys[script.i]
               last == script.i = Len(script.poolKeys)
           IN  script' =
                   IF failed THEN ScriptExit("error")
                   ELSE IF script.step = "set"
                   THEN [script EXCEPT
                             !.signers = @ \cup {[key |-> <<TreasuryPubkey, pubkey>>,
                                                  value |-> ToBase64(SecretKey(pubkey))]},
                             !.step = "zadd"]
                   ELSE IF script.step = "zadd"
                   THEN [script EXCEPT
                             !.keys = ZAdd(@, pubkey, script.clock + 1),
                             !.clock = @ + 1,
                             !.step = "hset"]
                   ELSE [script EXCEPT
                             !.hashes = @ \cup {[pubkey |-> pubkey,
                                                 label |-> Presets[script.i],
                                                 txSig |-> TxSigOf(script.run)]},
                             !.step = IF last THEN "" ELSE "set",
                             !.i = IF last THEN @ ELSE @ + 1,
                             !.pc = IF last THEN "trim" ELSE "persist"]
    /\ ScriptFrame

(* redis.zremrangebyrank('dbc:config:keys', 0, -10), then the script ends. *)
ScriptTrim ==
    /\ script.pc = "trim"
    /\ \E failed \in BOOLEAN :
           script' =
               IF failed THEN ScriptExit("error")
               ELSE [ScriptExit("ok") EXCEPT !.keys = ZRemRangeByRank(@, 0, -10)]
    /\ ScriptFrame

(* recent-pool-configs: GET *)
RecentPoolConfigs ==
    /\ \E failed \in BOOLEAN :
           script' =
               [script EXCEPT
                    !.listed = IF failed THEN [status |-> 500, keys |-> <<>>]
                               ELSE [status |-> 200,
                                     keys |-> ZRangeRev(script.keys, -10, -1)]]
    /\ ScriptFrame

(***************************************************************************)
(* The pool deposit of create-token-meteora.  Amounts are in tenths of a   *)
(* lamport, so that Math.round has something to round.                     *)
(***************************************************************************)
LAMPORTS_PER_SOL == 10 ^ 9

(* 0.01 SOL: a hundredth of LAMPORTS_PER_SOL lamports, ten times as many *)
(* tenths of a lamport.                                                  *)
DEFAULT_SOL_DEPOSIT == LAMPORTS_PER_SOL \div 10

(* Math.round(ui * LAMPORTS_PER_SOL) of a non-negative amount *)
ToLamports(tenths) == (tenths + 5) \div 10

PortalAmounts ==
    [given : {"absent", "null"}, amount : {0}]
    \cup [given : {"number"},
          amount : (0 - MaxSpread .. MaxSpread)
                   \cup (DEFAULT_SOL_DEPOSIT - MaxSpread .. DEFAULT_SOL_DEPOSIT + MaxSpread)]

SolDepositUiUnfloored(portal) ==
    IF portal.given = "number" /\ portal.amount >= 0
    THEN portal.amount
    ELSE DEFAULT_SOL_DEPOSIT

SolDepositUi(portal) ==
    IF portal.given = "number" /\ portal.amount >= DEFAULT_SOL_DEPOSIT
    THEN portal.amount
    ELSE DEFAULT_SOL_DEPOSIT

IdleDeposit ==
    [portal |-> [given |-> "absent", amount |-> 0], done |-> FALSE,
     depositSol |-> 0, depositLamports |-> 0]

DepositCompute ==
    /\ ~deposit.done
    /\ deposit' = [deposit EXCEPT
                       !.done = TRUE,
                       !.depositSol = SolDepositUi(deposit.portal),
                       !.depositLamports = ToLamports(SolDepositUi(deposit.portal))]
    /\ UNCHANGED <<redis, dbcPool, counter, nextKey, reqs, resp, treasurySet,
                   market, stats, script>>

(***************************************************************************)
(* The system.                                                             *)
(***************************************************************************)
\* the store holds the records earlier deployments left for LegacyOwner, in
\* the JSON-array form sign-token-txs parses
LegacyStore ==
    RedisSet(RedisSet(<<>>, SignerKey(LegacyOwner, LegacyConfig, "config"),
                      ToJsonArray(SecretKey(LegacyConfig))),
             SignerKey(LegacyOwner, LegacyMint, "mint"),
             ToJsonArray(SecretKey(LegacyMint)))

Init ==
    /\ redis = LegacyStore
    /\ dbcPool = {}
    /\ counter = [exists |-> FALSE, nextIndex |-> 0]
    /\ nextKey = 0
    /\ reqs = [r \in 1..MaxRequests |-> IdleRequest]
    /\ resp = NoResponse
    /\ treasurySet \in BOOLEAN
    /\ market = IdleMarket
    /\ stats = IdleStats
    /\ script = IdleScript
    /\ deposit = IdleDeposit

Next ==
    \/ \E r \in 1..MaxRequests : CreateTokenBegin(r)
    \/ \E r \in 1..MaxRequests : CreateTokenAllocate(r)
    \/ \E r \in 1..MaxRequests : CreateTokenStoreConfig(r)
    \/ \E r \in 1..MaxRequests : CreateTokenStoreMint(r)
    \/ \E r \in 1..MaxRequests : CreateTokenBuild(r)
    \/ CreatePoolRequest
    \/ CreatePoolFollowUp
    \/ ReturnResponse
    \/ SignTokenTxsRequest
    \/ SignPoolTxRequest

Spec == Init /\ [][Next]_vars

(***************************************************************************)
(* create-token-meteora alone, with several requests interleaving at their *)
(* awaited calls.                                                          *)
(***************************************************************************)
InitCreate ==
    /\ redis = LegacyStore
    /\ dbcPool = {}
    /\ counter = [exists |-> FALSE, nextIndex |-> 0]
    /\ nextKey = 0
    /\ reqs = [r \in 1..MaxConcurrent |-> IdleRequest]
    /\ resp = NoResponse
    /\ treasurySet \in BOOLEAN
    /\ market = IdleMarket
    /\ stats = IdleStats
    /\ script = IdleScript
    /\ deposit = IdleDeposit

NextCreate ==
    \/ \E r \in 1..MaxConcurrent : CreateTokenBegin(r)
    \/ \E r \in 1..MaxConcurrent : CreateTokenAllocate(r)
    \/ \E r \in 1..MaxConcurrent : CreateTokenStoreConfig(r)
    \/ \E r \in 1..MaxConcurrent : CreateTokenStoreMint(r)
    \/ \E r \in 1..MaxConcurrent : CreateTokenBuild(r)
    \/ ReturnResponse

SpecCreate == InitCreate /\ [][NextCreate]_vars

(***************************************************************************)
(* The marketplace endpoint over every leaderboard the store may hold.     *)
(***************************************************************************)
Untouched ==
    /\ redis = LegacyStore
    /\ dbcPool = {}
    /\ counter = [exists |-> FALSE, nextIndex |-> 0]
    /\ nextKey = 0
    /\ reqs = [r \in 1..MaxRequests |-> IdleRequest]
    /\ resp = NoResponse
    /\ treasurySet = TRUE

InitMarket ==
    /\ Untouched
    /\ \E board \in Leaderboards, hashes \in [Mints -> TokenHashes] :
           market = [board |-> board, hashes |-> hashes, resp |-> NoMarketResponse]
    /\ stats = IdleStats
    /\ script = IdleScript
    /\ deposit = IdleDeposit

NextMarket == MarketplaceRequest \/ MarketplaceReturn

SpecMarket == InitMarket /\ [][NextMarket]_vars

(***************************************************************************)
(* The platform-stats endpoint.                                            *)
(***************************************************************************)
InitStats ==
    /\ Untouched
    /\ market = IdleMarket
    /\ \E v2 \in 0..MaxTokens, day \in 0..MaxTokens :
           \E hour \in 0..day :
               stats = [v2 |-> v2, day |-> day, hour |-> hour, resp |-> NoStatsResponse]
    /\ script = IdleScript
    /\ deposit = IdleDeposit

NextStats == PlatformStatsRequest \/ PlatformStatsReturn

SpecStats == InitStats /\ [][NextStats]_vars

(***************************************************************************)
(* The create-pool-configs script, run after run, and its reader.          *)
(***************************************************************************)
InitConfigs ==
    /\ Untouched
    /\ market = IdleMarket
    /\ stats = IdleStats
    /\ script = IdleScript
    /\ deposit = IdleDeposit

NextConfigs ==
    \/ ScriptBuild
    \/ ScriptSend
    \/ ScriptConfirm
    \/ ScriptPersist
    \/ ScriptTrim
    \/ RecentPoolConfigs

SpecConfigs == InitConfigs /\ [][NextConfigs]_vars

(***************************************************************************)
(* The deposit computation over the amounts a request may carry.           *)
(***************************************************************************)
InitDeposit ==
    /\ Untouched
    /\ market = IdleMarket
    /\ stats = IdleStats
    /\ script = IdleScript
    /\ \E portal \in PortalAmounts :
           deposit = [IdleDeposit EXCEPT !.portal = portal]

NextDeposit == DepositCompute

SpecDeposit == InitDeposit /\ [][NextDeposit]_vars

(***************************************************************************)
(* Vocabulary of the properties.                                           *)
(***************************************************************************)
TokenSigned == resp.handler = "sign-token-txs"
PoolSigned == resp.handler = "sign-pool-tx"

\* the two records a sign-token-txs request names are in the store
BothRecordsExist(req) ==
    /\ SignerKey(req.walletAddress, req.poolConfigKey, "config") \in DOMAIN redis
    /\ SignerKey(req.walletAddress, req.mint, "mint") \in DOMAIN redis

\* every required-signer slot of a serialized transaction is populated
AllSlotsFilled(wire) ==
    /\ Deserialize(wire).ok
    /\ \A i \in 1..Len(wire.sigs) : wire.sigs[i] # EmptySig

\* a well-formed transaction that needs the client and one server key, the
\* client having signed
ClientPlusOne(wire, client, serverKey) ==
    /\ Deserialize(wire).ok
    /\ wire.msg.signers = <<client, serverKey>>
    /\ wire.sigs[1] = SignDetached(wire.msg, SecretKey(client))

(***************************************************************************)
(* C1: every sign-token-txs request whose two server keys are in the       *)
(* Keypair Store (in particular the keys an earlier create-token wrote)    *)
(* and whose two client-signed transactions each need the client and one   *)
(* server key is answered 200 with every required-signer slot populated.   *)
(* The code does not do this for the keys create-token-meteora stores.     *)
(***************************************************************************)
C1_ResolvableKeysAreSigned ==
    ( /\ TokenSigned
      /\ BothRecordsExist(resp.req)
      /\ ClientPlusOne(resp.req.signedConfigTx, resp.req.walletAddress, resp.req.poolConfigKey)
      /\ ClientPlusOne(resp.req.signedPoolTx, resp.req.walletAddress, resp.req.mint) )
    => ( /\ resp.status = 200
         /\ AllSlotsFilled(resp.signedConfigTx)
         /\ AllSlotsFilled(resp.signedPoolTx) )

(***************************************************************************)
(* C2: a secret that create-token stored under signer:{wallet}:{subject}:  *)
(* {role} is decoded by sign-token-txs to exactly the bytes stored.  The   *)
(* code writes base64 and parses JSON.                                     *)
(***************************************************************************)
C2_StoreRetrieveRoundTrip ==
    \A r \in 1..MaxRequests : \A k \in reqs[r].writes :
        JsonParse(RedisGet(redis, k)) = [ok |-> TRUE, bytes |-> SecretKey(k[2])]

(***************************************************************************)
(* C3: in create-token the config record and the mint record are both in   *)
(* the Keypair Store before the step that produces the 200 response.       *)
(***************************************************************************)
C3_WritesPrecedeResponse ==
    [][\A r \in 1..MaxRequests :
         (reqs[r].status # 200 /\ reqs'[r].status = 200)
         => /\ RedisGet(redis, SignerKey(reqs'[r].walletAddress, reqs'[r].poolConfigKey, "config"))
                 = ToBase64(SecretKey(reqs'[r].poolConfigKey))
            /\ RedisGet(redis, SignerKey(reqs'[r].walletAddress, reqs'[r].mint, "mint"))
                 = ToBase64(SecretKey(reqs'[r].mint))
            /\ redis' = redis]_vars

C3_Witness ==
    \E r \in 1..MaxRequests : reqs[r].status = 200 /\ Len(reqs[r].transactions) >= 2

(***************************************************************************)
(* C4 as stated: the base mint keypair create-pool generates has its       *)
(* record under signer:{wallet}:{mint}:mint when the transaction is        *)
(* returned.                                                               *)
(***************************************************************************)
C4_CreatePoolPersistsBaseMint ==
    (resp.handler = "create-pool" /\ resp.status = 200)
    => SignerKey(resp.req.walletAddress, resp.baseMint, "mint") \in DOMAIN redis

(***************************************************************************)
(* C4 amended: the keypairs create-token-meteora generates have their      *)
(* records before a transaction naming them is returned, and sign-pool-tx  *)
(* finds and rebuilds the mint keypair of a returned mint; create-pool     *)
(* persists nothing, and sign-pool-tx answers 404 for its base mint.       *)
(***************************************************************************)
C4_GeneratedKeysRetrievable ==
    /\ \A r \in 1..MaxRequests : reqs[r].transactions # <<>> =>
          \A i \in 1..Len(reqs[r].transactions) :
             \A j \in 1..Len(reqs[r].transactions[i].msg.signers) :
                LET signer == reqs[r].transactions[i].msg.signers[j]
                IN  signer \in {reqs[r].configPubkey, reqs[r].mintPubkey}
                    => \E role \in {"config", "mint"} :
                          SignerKey(reqs[r].walletAddress, signer, role) \in DOMAIN redis
    /\ \A r \in 1..MaxRequests :
          ( /\ PoolSigned
            /\ reqs[r].status = 200
            /\ ~PoolFieldsMissing(resp.req)
            /\ resp.req.walletAddress = reqs[r].walletAddress
            /\ resp.req.mint = reqs[r].mint )
          => (resp.status # 404 /\ (resp.threw => resp.signatures > 0))
    /\ (PoolSigned /\ ~PoolFieldsMissing(resp.req) /\ resp.req.mint = BaseMintKey)
          => (resp.status = 404 /\ resp.error = "Keypair not found")

C4_Witness ==
    \E r \in 1..MaxRequests :
        /\ PoolSigned
        /\ resp.status = 200
        /\ reqs[r].status = 200
        /\ resp.req.walletAddress = reqs[r].walletAddress
        /\ resp.req.mint = reqs[r].mint
        /\ AllSlotsFilled(resp.signedPoolTx)

(***************************************************************************)
(* C5: when the config record or the mint record is missing,               *)
(* sign-token-txs answers 404 'Keypair not found', has computed no         *)
(* signature and returns neither transaction; no response carries one      *)
(* transaction without the other.                                          *)
(***************************************************************************)
C5_LookupMissIsAllOrNothing ==
    TokenSigned =>
        /\ (~TokenFieldsMissing(resp.req) /\ ~BothRecordsExist(resp.req))
              => /\ resp.status = 404
                 /\ resp.error = "Keypair not found"
                 /\ resp.signatures = 0
                 /\ resp.signedConfigTx = NoWire
                 /\ resp.signedPoolTx = NoWire
        /\ (resp.signedConfigTx = NoWire) <=> (resp.signedPoolTx = NoWire)

C5_Witness ==
    /\ TokenSigned
    /\ ~TokenFieldsMissing(resp.req)
    /\ SignerKey(resp.req.walletAddress, resp.req.poolConfigKey, "config") \in DOMAIN redis
    /\ SignerKey(resp.req.walletAddress, resp.req.mint, "mint") \notin DOMAIN redis
    /\ resp.status = 404

(***************************************************************************)
(* C6: a sign-token-txs request with all its fields, one of whose          *)
(* transactions does not deserialize, is answered 400 'Invalid transaction *)
(* data' whatever the store holds; stated here for the requests whose two  *)
(* records exist, where the code throws on the records create-token wrote. *)
(***************************************************************************)
C6_UndecodableIsRejected ==
    ( /\ TokenSigned
      /\ ~TokenFieldsMissing(resp.req)
      /\ BothRecordsExist(resp.req)
      /\ (~Deserialize(resp.req.signedConfigTx).ok \/ ~Deserialize(resp.req.signedPoolTx).ok) )
    => (resp.status = 400 /\ resp.error = "Invalid transaction data")

(***************************************************************************)
(* C7: every endpoint answers a request that lacks a field it requires     *)
(* with 400 and an error, having written nothing and called no upstream    *)
(* service.  A token without imageUrl is answered 500 by create-pool and   *)
(* create-token-meteora.                                                   *)
(***************************************************************************)
RequiredFieldMissing(rs) ==
    \/ /\ rs.handler = "sign-token-txs"
       /\ \/ rs.req.walletAddress = "" \/ rs.req.poolConfigKey = "" \/ rs.req.mint = ""
          \/ rs.req.signedConfigTx.form = "" \/ rs.req.signedPoolTx.form = ""
    \/ /\ rs.handler = "sign-pool-tx"
       /\ \/ rs.req.walletAddress = "" \/ rs.req.poolConfigKey = "" \/ rs.req.mint = ""
          \/ rs.req.signedPoolTx.form = ""
    \/ /\ rs.handler = "create-pool"
       /\ \/ rs.req.walletAddress = "" \/ rs.req.configKey = ""
          \/ rs.req.token \in {"", "noimage"}
    \/ /\ rs.handler = "create-token"
       /\ (rs.req.walletAddress = "" \/ rs.req.token \in {"", "noimage"})

C7_MissingFieldIs400 ==
    RequiredFieldMissing(resp)
    => /\ resp.status = 400
       /\ resp.error # ""
       /\ resp.upstream = {}
       /\ resp.writes = {}

(***************************************************************************)
(* C8: in every 200 response of sign-token-txs and sign-pool-tx each       *)
(* returned transaction carries the message of the transaction sent in;    *)
(* the two differ in their signature slots only.                           *)
(***************************************************************************)
SameButSlots(out, in) == out = [in EXCEPT !.sigs = out.sigs]

C8_MessageUntouched ==
    /\ (TokenSigned /\ resp.status = 200)
          => /\ SameButSlots(resp.signedConfigTx, resp.req.signedConfigTx)
             /\ SameButSlots(resp.signedPoolTx, resp.req.signedPoolTx)
    /\ (PoolSigned /\ resp.status = 200)
          => SameButSlots(resp.signedPoolTx, resp.req.signedPoolTx)

C8_Witness ==
    /\ TokenSigned
    /\ resp.status = 200
    /\ resp.signedConfigTx # resp.req.signedConfigTx
    /\ resp.signedPoolTx # resp.req.signedPoolTx

(***************************************************************************)
(* C9 as stated: co-signing keeps the length of the slot array, and every  *)
(* slot that is non-empty in the input has the same value in the output.   *)
(***************************************************************************)
FilledSlotsKept(out, in) ==
    /\ Len(out.sigs) = Len(in.sigs)
    /\ out.nsig = in.nsig
    /\ \A i \in 1..Len(in.sigs) : in.sigs[i] # EmptySig => out.sigs[i] = in.sigs[i]

C9_FilledSlotsNeverChange ==
    (TokenSigned /\ resp.status = 200)
    => /\ FilledSlotsKept(resp.signedConfigTx, resp.req.signedConfigTx)
       /\ FilledSlotsKept(resp.signedPoolTx, resp.req.signedPoolTx)

\* the slots of the keys in others are as the client sent them
SlotsKept(out, in, serverKeys) ==
    /\ Len(out.sigs) = Len(in.sigs)
    /\ out.nsig = in.nsig
    /\ out.msg.signers = in.msg.signers
    /\ \A i \in 1..Len(in.sigs) :
          in.msg.signers[i] \notin serverKeys => out.sigs[i] = in.sigs[i]

(***************************************************************************)
(* C9 amended: co-signing keeps the length and order of the slot array and *)
(* every slot but those of the keys the server signs with; the slot of a   *)
(* server key holds that key's signature of the message after co-signing,  *)
(* whatever the client had put there.                                      *)
(***************************************************************************)
ServerSlot(out, key) ==
    \E i \in 1..Len(out.sigs) :
        /\ out.msg.signers[i] = key
        /\ out.sigs[i] = [by |-> key, over |-> out.msg]

C9_OnlyServerSlotsChange ==
    /\ (TokenSigned /\ resp.status = 200)
          => /\ SlotsKept(resp.signedConfigTx, resp.req.signedConfigTx, {resp.req.poolConfigKey})
             /\ SlotsKept(resp.signedPoolTx, resp.req.signedPoolTx, {resp.req.mint})
             /\ ServerSlot(resp.signedConfigTx, resp.req.poolConfigKey)
             /\ ServerSlot(resp.signedPoolTx, resp.req.mint)
    /\ (PoolSigned /\ resp.status = 200)
          => /\ SlotsKept(resp.signedPoolTx, resp.req.signedPoolTx, {resp.req.mint, "treasury"})
             /\ ServerSlot(resp.signedPoolTx, resp.req.mint)
             /\ ServerSlot(resp.signedPoolTx, "treasury")

C9_Witness ==
    /\ TokenSigned
    /\ resp.status = 200
    /\ \E i \in 1..Len(resp.req.signedConfigTx.sigs) :
          /\ resp.req.signedConfigTx.sigs[i] = JunkSig
          /\ resp.signedConfigTx.sigs[i] # JunkSig
    /\ \E i \in 1..Len(resp.req.signedPoolTx.sigs) :
          /\ resp.req.signedPoolTx.sigs[i] # EmptySig
          /\ resp.signedPoolTx.sigs[i] = resp.req.signedPoolTx.sigs[i]

(***************************************************************************)
(* C10: with the store unchanged, sending sign-token-txs the transactions  *)
(* it has just returned yields a 200 response with those same              *)
(* transactions.                                                           *)
(***************************************************************************)
FedBack(rs) ==
    [rs.req EXCEPT !.signedConfigTx = rs.signedConfigTx, !.signedPoolTx = rs.signedPoolTx]

C10_SignTokenTxsIdempotent ==
    (TokenSigned /\ resp.status = 200)
    => /\ SignTokenTxs(redis, resp.req) = resp
       /\ SignTokenTxs(redis, FedBack(resp)).status = 200
       /\ SignTokenTxs(redis, FedBack(resp)).signedConfigTx = resp.signedConfigTx
       /\ SignTokenTxs(redis, FedBack(resp)).signedPoolTx = resp.signedPoolTx

C10_Witness ==
    /\ TokenSigned
    /\ resp.status = 200
    /\ FedBack(resp) # resp.req
    /\ SignTokenTxs(redis, FedBack(resp)).status = 200

(***************************************************************************)
(* C11: a step in which sign-token-txs or sign-pool-tx answers, with 200   *)
(* or with any error, leaves the Keypair Store, the pool hashes and the    *)
(* config counter as they were, and the handler has called no upstream     *)
(* service (no RPC node, so no submission).                                *)
(***************************************************************************)
C11_SigningHasNoSideEffect ==
    [][(resp' # resp /\ resp'.handler \in {"sign-token-txs", "sign-pool-tx"})
         => /\ redis' = redis
            /\ dbcPool' = dbcPool
            /\ counter' = counter
            /\ resp'.upstream = {}
            /\ resp'.writes = {}]_vars

C11_Witness ==
    /\ TokenSigned
    /\ resp.status = 200
    /\ DOMAIN redis # DOMAIN LegacyStore
    /\ resp.upstream = {}

(***************************************************************************)
(* C12: in a 200 response of sign-token-txs the returned signedConfigTx is *)
(* the signedConfigTx sent in with the config key's signature of its       *)
(* message in the config key's slot and no signature of the mint key       *)
(* added; the returned signedPoolTx is the signedPoolTx sent in with the   *)
(* mint key's signature in the mint key's slot and none of the config key  *)
(* added.                                                                  *)
(***************************************************************************)
CoSignedWith(out, in, key, other) ==
    /\ out.form = "tx"
    /\ out.msg = in.msg
    /\ out.nsig = in.nsig
    /\ Len(out.sigs) = Len(in.sigs)
    /\ \E i \in 1..Len(in.sigs) : in.msg.signers[i] = key
    /\ \A i \in 1..Len(in.sigs) :
          /\ in.msg.signers[i] = key => out.sigs[i] = [by |-> key, over |-> in.msg]
          /\ in.msg.signers[i] # key => out.sigs[i] = in.sigs[i]
          /\ (key # other /\ out.sigs[i].by = other) => in.sigs[i].by = other

C12_EachTransactionGetsItsOwnKey ==
    (TokenSigned /\ resp.status = 200)
    => /\ CoSignedWith(resp.signedConfigTx, resp.req.signedConfigTx,
                       resp.req.poolConfigKey, resp.req.mint)
       /\ CoSignedWith(resp.signedPoolTx, resp.req.signedPoolTx,
                       resp.req.mint, resp.req.poolConfigKey)

C12_Witness ==
    /\ TokenSigned
    /\ resp.status = 200
    /\ \E i \in 1..Len(resp.req.signedConfigTx.sigs) :
          /\ resp.req.signedConfigTx.sigs[i] = EmptySig
          /\ resp.signedConfigTx.sigs[i].by = resp.req.poolConfigKey
    /\ \E i \in 1..Len(resp.req.signedPoolTx.sigs) :
          /\ resp.req.signedPoolTx.sigs[i] = EmptySig
          /\ resp.signedPoolTx.sigs[i].by = resp.req.mint
    /\ AllSlotsFilled(resp.signedConfigTx)

(***************************************************************************)
(* C13: in sign-pool-tx each signature lies in the slot whose index is the *)
(* index of its public key among the signer keys the message declares, and *)
(* adding the mint signature then the treasury signature gives the slot    *)
(* array that adding them in the opposite order gives.                     *)
(***************************************************************************)
C13_SlotFollowsHeaderOrder ==
    (PoolSigned /\ resp.status = 200)
    => LET tx == Deserialize(resp.req.signedPoolTx).tx
           mintSig == SignDetached(MessageBytes(tx), SecretKey(resp.req.mint))
           treasurySig == SignDetached(MessageBytes(tx), SecretKey(TreasuryPubkey))
           mintFirst == AddSignature(AddSignature(tx, resp.req.mint, mintSig).tx,
                                     TreasuryPubkey, treasurySig)
           treasuryFirst == AddSignature(AddSignature(tx, TreasuryPubkey, treasurySig).tx,
                                         resp.req.mint, mintSig)
       IN  /\ mintFirst.ok /\ treasuryFirst.ok
           /\ mintFirst.tx.sigs = treasuryFirst.tx.sigs
           /\ resp.signedPoolTx.sigs = mintFirst.tx.sigs
           /\ \A i \in 1..Len(resp.signedPoolTx.sigs) :
                 /\ tx.msg.signers[i] = resp.req.mint => resp.signedPoolTx.sigs[i] = mintSig
                 /\ tx.msg.signers[i] = "treasury" => resp.signedPoolTx.sigs[i] = treasurySig
                 /\ resp.signedPoolTx.sigs[i] \in {mintSig, treasurySig}
                       => resp.signedPoolTx.sigs[i].by = tx.msg.signers[i]

C13_Witness ==
    /\ PoolSigned
    /\ resp.status = 200
    /\ \A i \in 1..Len(resp.req.signedPoolTx.sigs) : resp.req.signedPoolTx.sigs[i] = EmptySig
    /\ \E i, j \in 1..Len(resp.signedPoolTx.sigs) :
          /\ 1 < i /\ i < j
          /\ resp.signedPoolTx.sigs[1] = EmptySig
          /\ resp.signedPoolTx.sigs[i].by = resp.req.mint
          /\ resp.signedPoolTx.sigs[j].by = "treasury"

(***************************************************************************)
(* C14 as stated: create-token hands the client transactions on which no   *)
(* server signature has been applied, and a transaction sign-token-txs     *)
(* completes arrived with the client's slot filled and the server-held     *)
(* signers' slots empty.                                                   *)
(***************************************************************************)
ClientOnly(wire, client) ==
    \A i \in 1..Len(wire.sigs) :
        (wire.sigs[i] # EmptySig) <=> (wire.msg.signers[i] = client)

ServerPreSigned(wire, client) ==
    \A i \in 1..Len(wire.sigs) :
        IF wire.msg.signers[i] = client THEN wire.sigs[i] = EmptySig
        ELSE wire.sigs[i] = [by |-> wire.msg.signers[i], over |-> wire.msg]

SubjectsOf(q) == {q.configPubkey, q.mintPubkey} \ {""}

C15_FreshKeysPerRequest ==
    /\ \A r1, r2 \in DOMAIN reqs :
          r1 # r2 => /\ SubjectsOf(reqs[r1]) \cap SubjectsOf(reqs[r2]) = {}
                     /\ reqs[r1].writes \cap reqs[r2].writes = {}
    /\ \A r \in DOMAIN reqs :
          reqs[r].mintPubkey # "" => reqs[r].mintPubkey # reqs[r].configPubkey
    /\ \A k \in DOMAIN redis \ DOMAIN LegacyStore :
          /\ Cardinality({r \in DOMAIN reqs : k \in reqs[r].writes}) = 1
          /\ redis[k] = [enc |-> "base64", bytes |-> [valid |-> TRUE, pub |-> k[2]]]

C15_Witness ==
    \E r1, r2 \in DOMAIN reqs :
        /\ r1 # r2
        /\ reqs[r1].status = 200 /\ reqs[r2].status = 200
        /\ reqs[r1].walletAddress = reqs[r2].walletAddress
        /\ reqs[r1].token = reqs[r2].token
        /\ Cardinality(DOMAIN redis \ DOMAIN LegacyStore) = 4

(***************************************************************************)
(* C16: no step of create-token, create-pool, sign-token-txs or            *)
(* sign-pool-tx deletes or rewrites a Signing Key Record: every record in  *)
(* the store before a step is in the store after it, under the same        *)
(* (wallet, subject, role) and with the same value, and a step adds at     *)
(* most one record.                                                        *)
(***************************************************************************)
C16_RecordsAreWrittenOnce ==
    [][/\ \A k \in DOMAIN redis : k \in DOMAIN redis' /\ redis'[k] = redis[k]
       /\ Cardinality(DOMAIN redis' \ DOMAIN redis) <= 1]_vars

C16_Witness ==
    /\ \E r \in 1..MaxRequests : reqs[r].status = 200 /\ reqs[r].walletAddress = "w2"
    /\ resp.handler \in {"sign-token-txs", "sign-pool-tx"}
    /\ resp.status = 200
    /\ Cardinality(DOMAIN redis) = 4

(***************************************************************************)
(* C17: in create-pool and create-token the metadata has been published    *)
(* before a keypair is generated, a config index allocated or a            *)
(* transaction built; a request whose metadata publication fails ends with *)
(* a 500 response, with no transaction, no keypair generated or stored and *)
(* no config index allocated.                                              *)
(***************************************************************************)
MetadataFailed(rs) ==
    \/ /\ rs.handler = "create-token"
       /\ rs.error \in {"Failed to upload metadata", "No image provided for token creation"}
    \/ /\ rs.handler = "create-pool"
       /\ rs.error \in {"metadata upload failed", "createTokenMetadata: missing imageUrl"}

MetadataComesFirst ==
    /\ \A r \in DOMAIN reqs :
          (\/ reqs[r].configIndex # 0 \/ reqs[r].configPubkey # ""
           \/ reqs[r].mintPubkey # "" \/ reqs[r].transactions # <<>>
           \/ reqs[r].writes # {})
          => "metadata" \in reqs[r].upstream
    /\ (resp.baseMint # "" \/ resp.transaction.form # "")
          => ("metadata" \in resp.upstream /\ ~MetadataFailed(resp))

C17_MetadataFailureIsFatal ==
    /\ []MetadataComesFirst
    /\ [][(resp' # resp /\ MetadataFailed(resp'))
            => /\ resp'.status = 500
               /\ resp'.upstream \subseteq {"metadata"}
               /\ resp'.transaction.form = ""
               /\ resp'.baseMint = ""
               /\ redis' = redis
               /\ counter' = counter
               /\ nextKey' = nextKey
               /\ reqs' = reqs]_vars

C17_Witness ==
    /\ resp.handler = "create-token"
    /\ resp.error = "Failed to upload metadata"
    /\ resp.status = 500
    /\ resp.upstream = {"metadata"}
    /\ nextKey = 0
    /\ ~counter.exists
    /\ DOMAIN redis = DOMAIN LegacyStore

(***************************************************************************)
(* C18: every failure inside sign-token-txs and sign-pool-tx (the store    *)
(* read, decoding the stored secret, rebuilding the keypair, adding a      *)
(* signature) is answered with an error status and an { error } envelope;  *)
(* none leaves the handler as an exception.  The code has no try block     *)
(* around those steps.                                                     *)
(***************************************************************************)
C18_NoFailureEscapes ==
    (TokenSigned \/ PoolSigned)
    => /\ ~resp.threw
       /\ resp.status \in {200, 400, 404, 500}
       /\ resp.status # 200 => resp.error # ""

(***************************************************************************)
(* C19: sign-token-txs answers 200 only when both signer:{walletAddress}:  *)
(* {poolConfigKey}:config and signer:{walletAddress}:{mint}:mint exist for *)
(* the wallet the request names, and it signs with the secrets stored      *)
(* there; records of another wallet are not used.  Nothing else is asked:  *)
(* a request whose transactions the client has not signed is answered 200  *)
(* as well.                                                                *)
(***************************************************************************)
C19_WalletScopedLookup ==
    TokenSigned =>
       LET cfgKey == <<resp.req.walletAddress, resp.req.poolConfigKey, "config">>
           mintKey == <<resp.req.walletAddress, resp.req.mint, "mint">>
           stored == cfgKey \in DOMAIN redis /\ mintKey \in DOMAIN redis
       IN  /\ resp.status = 200 =>
                /\ stored
                /\ redis[cfgKey].bytes.pub = resp.req.poolConfigKey
                /\ redis[mintKey].bytes.pub = resp.req.mint
           /\ (resp.req.walletAddress # "" /\ resp.req.poolConfigKey # "" /\ resp.req.mint # ""
               /\ resp.req.signedConfigTx.form # "" /\ resp.req.signedPoolTx.form # ""
               /\ ~stored)
                => (resp.status = 404 /\ resp.signedConfigTx.form = "")
           /\ ( /\ stored
                /\ redis[cfgKey].enc = "json" /\ redis[mintKey].enc = "json"
                /\ resp.req.signedConfigTx.form = "tx" /\ resp.req.signedPoolTx.form = "tx"
                /\ resp.req.signedConfigTx.nsig = Len(resp.req.signedConfigTx.msg.signers)
                /\ resp.req.signedPoolTx.nsig = Len(resp.req.signedPoolTx.msg.signers)
                /\ \A i \in 1..Len(resp.req.signedConfigTx.sigs) :
                      resp.req.signedConfigTx.sigs[i] = EmptySig
                /\ \A i \in 1..Len(resp.req.signedPoolTx.sigs) :
                      resp.req.signedPoolTx.sigs[i] = EmptySig )
                => resp.status = 200

C19_Witness ==
    /\ TokenSigned
    /\ resp.status = 404
    /\ resp.req.walletAddress = "w1"
    /\ <<"w2", resp.req.poolConfigKey, "config">> \in DOMAIN redis
    /\ <<"w2", resp.req.mint, "mint">> \in DOMAIN redis
    /\ ClientOnly(resp.req.signedConfigTx, "w1")

(***************************************************************************)
(* C20 as stated: the transaction create-pool returns includes a swap      *)
(* instruction exactly when the request's buyAmount is greater than 0.     *)
(***************************************************************************)
C20_SwapFollowsBuyAmount ==
    (resp.handler = "create-pool" /\ resp.status = 200)
    => (HasSwap(resp.transaction.msg) <=> resp.req.buyAmount > 0)

(***************************************************************************)
(* C20 amended: create-pool does not read buyAmount: the transaction it    *)
(* returns is the pool creation without a swap instruction, the same for   *)
(* buyAmount > 0 as for buyAmount = 0.                                     *)
(***************************************************************************)
C20_CreatePoolIgnoresBuyAmount ==
    (resp.handler = "create-pool" /\ resp.status = 200)
    => /\ ~HasSwap(resp.transaction.msg)
       /\ resp.transaction.msg.kind = "create-pool"
       /\ resp.transaction = CreatePool([resp.req EXCEPT !.buyAmount = 0], "ok").transaction

C20_Witness ==
    /\ resp.handler = "create-pool"
    /\ resp.status = 200
    /\ resp.req.buyAmount > 0
    /\ resp.transaction.form = "tx"

(***************************************************************************)
(* C21: a marketplace GET that finds leaderboard:v2 empty answers 200 with *)
(* the empty entries list, whatever its req parameter is, and looks up no  *)
(* token hash.                                                             *)
(***************************************************************************)
MarketAnswered == market.resp # NoMarketResponse /\ market.resp.req.method = "GET"

C21_EmptyLeaderboardIsEmptyList ==
    (MarketAnswered /\ market.board = <<>> /\ market.resp.fail # "zrange")
        => /\ market.resp.status = 200
           /\ market.resp.body = "entries"
           /\ market.resp.entries = <<>>
           /\ market.resp.lookups = 0

C21_Witness ==
    /\ MarketAnswered
    /\ market.board = <<>>
    /\ market.resp.req.form = "invalid"
    /\ market.resp.status = 200
    /\ market.resp.lookups = 0

(***************************************************************************)
(* C22: as stated, a marketplace GET whose req parameter is not valid JSON *)
(* is answered 400 'Invalid req param JSON' in every state of the store.   *)
(***************************************************************************)
C22_InvalidReqIsAlways400 ==
    (MarketAnswered /\ market.resp.req.form = "invalid")
        => /\ market.resp.status = 400
           /\ market.resp.error = "Invalid req param JSON"

(***************************************************************************)
(* C22, as the code has it: the req parameter is read only after the       *)
(* leaderboard and the token hashes.  An invalid req is answered 400 when  *)
(* the leaderboard has members and both store reads succeed, 200 with the  *)
(* empty list when the leaderboard is empty, and 500 when a read fails.    *)
(***************************************************************************)
C22_InvalidReqIs400AfterTheReads ==
    (MarketAnswered /\ market.resp.req.form = "invalid")
        => IF market.resp.fail = "zrange"
           THEN market.resp.status = 500
           ELSE IF market.board = <<>>
           THEN market.resp.status = 200 /\ market.resp.entries = <<>>
           ELSE IF market.resp.fail = "pipeline"
           THEN market.resp.status = 500
           ELSE /\ market.resp.status = 400
                /\ market.resp.error = "Invalid req param JSON"
                /\ market.resp.lookups = Len(market.board)

C22_Witness ==
    /\ MarketAnswered
    /\ market.resp.req.form = "invalid"
    /\ market.board # <<>>
    /\ market.resp.status = 400
    /\ market.resp.lookups = Len(market.board)

(***************************************************************************)
(* C23: platform-stats answers 500 exactly when one of its three reads of  *)
(* the store throws.  Whatever happens to the gems request or to an asset  *)
(* lookup, the answer is 200: with every upstream figure zero when the     *)
(* gems request gave nothing, and with the sums over the assets that       *)
(* answered otherwise.                                                     *)
(***************************************************************************)
StatsAnswered == stats.resp # NoStatsResponse /\ stats.resp.req.method = "GET"

RECURSIVE SumLiquidity(_)
SumLiquidity(pools) ==
    IF pools = <<>> THEN 0
    ELSE AssetOf(Head(pools).id).liquidity + SumLiquidity(Tail(pools))

Answered(pools) == SelectSeq(pools, LAMBDA p : p.outcome = "ok")

UpstreamZero ==
    /\ stats.resp.totalLiquidityUSD = 0
    /\ stats.resp.totalVolumeUSD = 0
    /\ stats.resp.marketCap24h = 0
    /\ stats.resp.topGainer24h = NoTop
    /\ stats.resp.topVolume24h = NoTop

C23_OnlyTheStoreFailsPlatformStats ==
    StatsAnswered
        => /\ stats.resp.status \in {200, 500}
           /\ stats.resp.status = 500 <=> stats.resp.req.fail # ""
           /\ stats.resp.status = 200 =>
                  /\ stats.resp.totalTokensLaunched = stats.v2
                  /\ stats.resp.tokensLaunched24h = stats.day
                  /\ stats.resp.tokensLaunchedLastHour = stats.hour
                  /\ stats.resp.req.gems # "ok" =>
                         UpstreamZero /\ stats.resp.graduatedTokens = 0
                  /\ stats.resp.totalLiquidityUSD
                         \in {0, SumLiquidity(Answered(stats.resp.req.pools))}

C23_Witness ==
    /\ StatsAnswered
    /\ stats.resp.status = 200
    /\ stats.resp.req.gems = "ok"
    /\ \E i, j \in DOMAIN stats.resp.req.pools :
           /\ stats.resp.req.pools[i].outcome = "ok"
           /\ stats.resp.req.pools[j].outcome = "throws"
    /\ stats.resp.totalLiquidityUSD > 0
    /\ stats.resp.totalLiquidityUSD < SumLiquidity(stats.resp.req.pools)

(***************************************************************************)
(* C24: the config indexes create-token-meteora hands out are 1, 2, 3, ... *)
(* without a gap or a repetition, however the requests interleave: no two  *)
(* requests hold the same index, the first one allocated is 1, and the     *)
(* stored nextIndex is the largest allocated index plus one, also when the *)
(* request that holds it fails afterwards.                                 *)
(***************************************************************************)
AllocatedIndexes == {reqs[r].configIndex : r \in DOMAIN reqs} \ {0}

C24_ConfigIndexesAreAllocatedOnce ==
    /\ \A r1, r2 \in DOMAIN reqs :
           (r1 # r2 /\ reqs[r1].configIndex # 0)
               => reqs[r1].configIndex # reqs[r2].configIndex
    /\ AllocatedIndexes = 1..Cardinality(AllocatedIndexes)
    /\ AllocatedIndexes = {} => ~counter.exists
    /\ AllocatedIndexes # {} =>
           /\ counter.exists
           /\ counter.nextIndex = Cardinality(AllocatedIndexes) + 1
           /\ \A n \in AllocatedIndexes : n < counter.nextIndex

C24_Witness ==
    /\ \E r1, r2 \in DOMAIN reqs :
           /\ reqs[r1].configIndex = 1
           /\ reqs[r1].status = 500
           /\ reqs[r2].configIndex = 2
           /\ reqs[r2].status = 200
    /\ counter.nextIndex = 3

(***************************************************************************)
(* C25: as stated, every 400 answer of create-token-meteora comes before   *)
(* any side effect: no metadata upload, no config index, no record in the  *)
(* Keypair Store.  The code answers 400 'Invalid walletAddress' after all  *)
(* three.                                                                  *)
(***************************************************************************)
C25_Every400PrecedesSideEffects ==
    /\ (resp.handler = "create-token" /\ resp.status = 400)
           => resp.upstream = {} /\ resp.writes = {}
    /\ \A r \in DOMAIN reqs :
           reqs[r].status = 400
               => /\ reqs[r].upstream = {}
                  /\ reqs[r].configIndex = 0
                  /\ reqs[r].writes = {}
                  /\ \A k \in DOMAIN redis : k[1] # reqs[r].walletAddress

C27_ConfigThenPoolAlways ==
    \A r \in DOMAIN reqs :
        reqs[r].status = 200
            => /\ reqs[r].transactions[1].msg.kind = "config"
               /\ reqs[r].transactions[2].msg.kind = "pool"

(***************************************************************************)
(* C27, as the code has it: the config transaction (which requires the     *)
(* config key) and the pool transaction (which requires the mint key) are  *)
(* the last two of the list, in this order.  They are also the first two   *)
(* unless the merged curve config has tokenType 0: then the mint           *)
(* transaction comes first, the list has three transactions, and the first *)
(* one requires the mint key and not the config key.                       *)
(***************************************************************************)
Requires(wire, key) == \E i \in DOMAIN wire.msg.signers : wire.msg.signers[i] = key

C27_ConfigThenPoolAfterTheMint ==
    \A r \in DOMAIN reqs :
        reqs[r].status = 200
            => LET txs == reqs[r].transactions
                   n == Len(txs)
               IN  /\ n = IF reqs[r].tokenType = 0 THEN 3 ELSE 2
                   /\ txs[n - 1].msg.kind = "config"
                   /\ Requires(txs[n - 1], reqs[r].poolConfigKey)
                   /\ txs[n].msg.kind = "pool"
                   /\ Requires(txs[n], reqs[r].mint)
                   /\ reqs[r].tokenType = 0 =>
                          /\ txs[1].msg.kind = "mint"
                          /\ Requires(txs[1], reqs[r].mint)
                          /\ ~Requires(txs[1], reqs[r].poolConfigKey)

C27_Witness ==
    \E r \in DOMAIN reqs :
        /\ reqs[r].status = 200
        /\ reqs[r].tokenType = 0
        /\ Len(reqs[r].transactions) = 3
        /\ reqs[r].transactions[1].msg.kind = "mint"
        /\ reqs[r].transactions[2].msg.kind = "config"

(***************************************************************************)
(* C28: the deposit create-token-meteora reports is the requested amount   *)
(* when that is a number of at least 0.01 SOL and 0.01 SOL otherwise       *)
(* (absent, null or smaller), so depositLamports is never below            *)
(* 10,000,000.                                                             *)
(***************************************************************************)
C28_DepositHasAFloor ==
    deposit.done
        => /\ deposit.depositSol =
                  IF /\ deposit.portal.given = "number"
                     /\ deposit.portal.amount >= LAMPORTS_PER_SOL \div 10
                  THEN deposit.portal.amount
                  ELSE LAMPORTS_PER_SOL \div 10
           /\ deposit.depositLamports >= 10000000

C28_Witness ==
    /\ deposit.done
    /\ deposit.portal.given = "number"
    /\ deposit.portal.amount > 0
    /\ deposit.portal.amount < LAMPORTS_PER_SOL \div 10
    /\ deposit.depositLamports = 10000000

(***************************************************************************)
(* C29: create-pool-configs writes to the store (a signer secret, a member *)
(* of dbc:config:keys, a dbc:config hash) only in a run without DRY_RUN    *)
(* whose batched transaction has been sent and whose confirmTransaction    *)
(* has returned: a run that fails to send or to confirm, and a DRY_RUN     *)
(* run, leave the store as it was.                                         *)
(***************************************************************************)
StoreOfScript == <<script.signers, script.keys, script.hashes>>

SentAndConfirmed ==
    /\ ~script.dryRun
    /\ script.sent
    /\ script.confirm \in {"finalized-ok", "finalized-err"}

CurrentKeys == {script.poolKeys[i] : i \in DOMAIN script.poolKeys}

Persisted(pubkey) ==
    \/ \E s \in script.signers : s.key[2] = pubkey
    \/ \E i \in DOMAIN script.keys : script.keys[i].member = pubkey
    \/ \E h \in script.hashes : h.pubkey = pubkey

C30_TrimKeepsTheLatest500 ==
    (script.pc = "exited" /\ script.exit = "ok" /\ ~script.dryRun
        /\ Cardinality(script.hashes) <= 500)
        => \A h \in script.hashes :
               \E i \in DOMAIN script.keys : script.keys[i].member = h.pubkey
====
